---- MODULE Spec2Model ----
(***************************************************************************)
(* Match-expression lowering of cairo-lang-lowering (lower/lower_match.rs) *)
(* as a state machine.  One behaviour is one call of lower_expr_match on   *)
(* one match expression: the initial state holds the semantic input (the   *)
(* kind of the matched value and the arm list), the actions are the        *)
(* successive phases of the lowering, and the final state holds what the   *)
(* call produced: diagnostics, leaves, Match terminators, sealed blocks    *)
(* and the result.                                                         *)
(*                                                                         *)
(* Indices are 1-based here (TLA+ sequences) where the source is 0-based:  *)
(* arm_index and pattern_index of the model are the source's plus one.     *)
(* Literal values and thresholds are the source's numbers.                 *)
(***************************************************************************)
EXTENDS Integers, Sequences, FiniteSets, TLC

\* ------------------------------------------------------------------ bounds
\* Number of concrete variants of every matched enum.
NumVariants == 2
\* Total number of patterns of an enum / extern-enum match.
MaxEnumPats == 3
\* Total number of top-level patterns of a tuple match.
MaxTuplePats == 2
\* Number of axes of the matched tuple.
TupleArity == 2
\* Total number of patterns of a felt252 match.
MaxFeltPats == 4
\* Largest usize literal written in a felt252 match.
MaxLit == 2
\* Largest explicit value of the threshold flag (the default is UsizeMax).
MaxThreshold == 3
\* Leaves handed to group_match_arms on its own, and the arms they name.
MaxLeaves == 4
MaxLeafArm == 3
\* Snapshot layers (@) on the matched type and on each type of a matched tuple.
MaxSnapshots == 1

\* usize::MAX, the default of the threshold flag; any value above every
\* literal of the model behaves the same.
UsizeMax == MaxLit + MaxThreshold + 10

\* ---------------------------------------------------------------- patterns
\* semantic::Pattern, restricted to what the lowering inspects.  `inner` is
\* PatternEnumVariant::inner_pattern.is_some().
Pat(k, e, v, i, n, fs) ==
    [kind |-> k, enum |-> e, variant |-> v, inner |-> i, value |-> n, fields |-> fs]
PEnum(e, v, i) == Pat("EnumVariant", e, v, i, 0, <<>>)
POtherwise == Pat("Otherwise", 0, 0, FALSE, 0, <<>>)
PLiteral(n) == Pat("Literal", 0, 0, FALSE, n, <<>>)
PTuple(fs) == Pat("Tuple", 0, 0, FALSE, 0, fs)

None == [arm_index |-> 0, pattern_index |-> 0]

\* semantic::TypeId: a long type under a number of snapshot layers; `types`
\* are the element types of a tuple.
Ty(base, n, types) == [base |-> base, snapshots |-> n, types |-> types]
wrap_in_snapshots(ty, n) == [ty EXCEPT !.snapshots = @ + n]
peel_snapshots(ty) == <<ty.snapshots, [ty EXCEPT !.snapshots = 0]>>
\* concrete_variant.ty: the payload type of a variant; the payload of the
\* second variant is itself a snapshot type.
VariantTy(enum, variant) ==
    Ty(<<"payload", enum, variant>>, IF variant = 2 THEN 1 ELSE 0, <<>>)
PatternPath(a, p) == [arm_index |-> a, pattern_index |-> p]

\* The concrete variants of an enum, in definition order.  Variant 1 carries a
\* payload (E{A(i32), B, ...}); the others are unit variants.
concrete_variants == 1 .. NumVariants
\* The enum id of a flat match is 1, that of tuple axis i is i; 0 is an enum
\* that is not the matched one.
ForeignEnum == 0

\* -------------------------------------------------------------- inputs
Max(S) == CHOOSE x \in S : \A y \in S : y <= x
Min(S) == CHOOSE x \in S : \A y \in S : x <= y

SeqsUpTo(S, n) == UNION {[1 .. k -> S] : k \in 0 .. n}

\* The arm list made of the patterns s, cut into arms after the positions
\* in cuts.
SplitArms(s, cuts) ==
    IF Len(s) = 0 THEN <<>>
    ELSE LET armOf(i) == 1 + Cardinality({c \in cuts : c < i})
         IN  [a \in 1 .. (Cardinality(cuts) + 1) |->
                 LET idx == {i \in 1 .. Len(s) : armOf(i) = a}
                 IN  SubSeq(s, Min(idx), Max(idx))]

\* Every arm list over the patterns P with at most n patterns in all; every
\* arm has at least one pattern.
ArmLists(P, n) ==
    UNION {{SplitArms(s, cuts) : cuts \in SUBSET (1 .. (Len(s) - 1))} :
              s \in SeqsUpTo(P, n)}

AtomPatterns(e) ==
    {PEnum(e, v, FALSE) : v \in concrete_variants}
        \cup {PEnum(e, 1, TRUE), POtherwise, PLiteral(0), PEnum(ForeignEnum, 1, FALSE)}

EnumPatterns == AtomPatterns(1)

\* The patterns of a tuple match: tuple patterns whose field i is a pattern
\* over axis i's enum, the top-level otherwise, and a pattern of another kind.
RECURSIVE FieldSeqs(_)
FieldSeqs(n) ==
    IF n = 0 THEN {<<>>}
    ELSE {Append(fs, f) : fs \in FieldSeqs(n - 1), f \in AtomPatterns(n)}

TuplePatterns == {PTuple(fs) : fs \in FieldSeqs(TupleArity)} \cup {POtherwise, PLiteral(0)}

\* The patterns of a felt252 match: literals (-1 stands for a value that is not
\* a usize, UsizeMax is the largest that is), the otherwise, and a pattern of
\* another kind.
FeltPatterns ==
    {PLiteral(n) : n \in (-1 .. MaxLit) \cup {UsizeMax}}
        \cup {POtherwise, PEnum(1, 1, FALSE)}

\* ------------------------------------------------------------------- state
VARIABLES
    kind,               \* "enum" | "extern" | "tuple" | "felt" | "leaves"
    arms,               \* expr.arms: the patterns of each arm
    matched_ty,         \* matched_expr.ty()
    var_requests,       \* payload variable id -> the type ctx.new_var was asked
    pc,                 \* the phase of the lowering
    otherwise_variant,  \* Option<PatternPath>; None when there is no wildcard
    variant_map,        \* variant_map / variants_map: key (path) -> PatternPath
    diagnostics,        \* ctx.diagnostics, in report order
    item_results,       \* the per-variant results collected by the emitter
    leaves_builders,    \* the MatchLeafBuilders registered so far
    block_ids,          \* block_ids of the flat emitters
    arm_var_ids,        \* arm_var_ids of the flat emitters
    n_blocks,           \* blocks allocated so far
    n_vars,             \* variables allocated so far (ctx.new_var)
    current_path,       \* LoweringMatchTupleContext::current_path.variants
    current_var_ids,    \* LoweringMatchTupleContext::current_var_ids
    frames,             \* the active calls of lower_full_match_tree
    felt,               \* max, literals_to_arm_map, threshold, strategy, cursor
    match_info,         \* the MatchInfo of the match expression itself
    matches,            \* the Match terminators emitted, in emission order
    groups_done,        \* groups of group_match_arms processed so far
    tail_calls,         \* arm indices lower_tail_expr was invoked with
    sealed_blocks,      \* the sealed blocks returned by group_match_arms
    result,             \* "Pending" | "Ok" | "Failed" | "Panic"
    failed_by           \* what made the result Failed

vars ==
    <<kind, arms, matched_ty, var_requests, pc, otherwise_variant, variant_map,
      diagnostics, item_results,
      leaves_builders, block_ids, arm_var_ids, n_blocks, n_vars, current_path,
      current_var_ids, frames, felt, match_info, matches, groups_done, tail_calls,
      sealed_blocks, result, failed_by>>

\* ------------------------------------------------------------- diagnostics
\* A diagnostic: its kind, the pattern it is attached to (arm 0: the match
\* expression itself; field 0: the whole pattern), the descriptor of a
\* MissingMatchArm, and the function that reported it.
Diag(k, a, p, f, d, by) ==
    [kind |-> k, arm |-> a, pat |-> p, field |-> f, desc |-> d, by |-> by]

RECURSIVE Flatten(_)
Flatten(ss) == IF Len(ss) = 0 THEN <<>> ELSE Head(ss) \o Flatten(Tail(ss))

\* ------------------------------------------------- get_underscore_pattern_path
\* arm.patterns.iter().position(is Otherwise)
OtherwisePosition(arm) ==
    LET ps == {p \in 1 .. Len(arm) : arm[p].kind = "Otherwise"}
    IN  IF ps = {} THEN 0 ELSE Min(ps)

\* .find(|option| option.is_some())
FindOtherwise(as) ==
    LET hits == {a \in 1 .. Len(as) : OtherwisePosition(as[a]) # 0}
    IN  IF hits = {} THEN None
        ELSE PatternPath(Min(hits), OtherwisePosition(as[Min(hits)]))

\* The patterns reported unreachable: every pattern of the arms after the
\* wildcard's arm, then the patterns after the wildcard in its own arm.
UnreachableLaterArmsOnly(as, ov) ==
    Flatten([a \in 1 .. (Len(as) - ov.arm_index) |->
                [p \in 1 .. Len(as[ov.arm_index + a]) |->
                    Diag("UnreachableMatchArm", ov.arm_index + a, p, 0, <<>>,
                         "get_underscore_pattern_path")]])
UnreachableAfter(as, ov) ==
    LET by == "get_underscore_pattern_path"
        later == [a \in 1 .. (Len(as) - ov.arm_index) |->
                    [p \in 1 .. Len(as[ov.arm_index + a]) |->
                        Diag("UnreachableMatchArm", ov.arm_index + a, p, 0, <<>>, by)]]
        same == [p \in 1 .. (Len(as[ov.arm_index]) - ov.pattern_index) |->
                    Diag("UnreachableMatchArm", ov.arm_index,
                         ov.pattern_index + p, 0, <<>>, by)]
    IN  Flatten(later) \o same

\* arms.iter().take(otherwise_variant.arm_index, or arms.len() when None)
TakeArms(as, ov) ==
    IF ov = None THEN as ELSE SubSeq(as, 1, ov.arm_index - 1)

\* ------------------------------------------------------ get_variant_to_arm_map
MapAcc(m, d, ok) == [map |-> m, diags |-> d, ok |-> ok]

RECURSIVE VariantMapFrom(_, _, _, _, _)
VariantMapFrom(as, concrete_enum_id, a, p, acc) ==
    IF a > Len(as) THEN acc
    ELSE IF p > Len(as[a]) THEN VariantMapFrom(as, concrete_enum_id, a + 1, 1, acc)
    ELSE
        LET pattern == as[a][p]
            by == "get_variant_to_arm_map"
            key == <<pattern.variant>>
        IN  IF pattern.kind = "Otherwise"
            THEN VariantMapFrom(as, concrete_enum_id, a + 1, 1, acc)
            ELSE IF pattern.kind # "EnumVariant" \/ pattern.enum # concrete_enum_id
            THEN MapAcc(acc.map,
                        Append(acc.diags,
                               Diag("UnsupportedMatchArmNotAVariant", a, p, 0, <<>>, by)),
                        FALSE)
            ELSE IF key \in DOMAIN acc.map
            THEN VariantMapFrom(as, concrete_enum_id, a, p + 1,
                     MapAcc(acc.map,
                            Append(acc.diags,
                                   Diag("UnreachableMatchArm", a, p, 0, <<>>, by)),
                            TRUE))
            ELSE VariantMapFrom(as, concrete_enum_id, a, p + 1,
                     MapAcc((key :> PatternPath(a, p)) @@ acc.map, acc.diags, TRUE))

get_variant_to_arm_map(as, concrete_enum_id) ==
    VariantMapFrom(as, concrete_enum_id, 1, 1, MapAcc(<<>>, <<>>, TRUE))

\* ------------------------------------------------- insert_tuple_path_patterns
\* The 0-based `index` of the source is Len(path); field index + 1 is the
\* pattern of axis index + 1, whose enum id is index + 1.
RECURSIVE insert_tuple_path_patterns(_, _, _, _)
RECURSIVE InsertEachVariant(_, _, _, _, _)

\* The arm Pattern::Otherwise(_) of the match on the field pattern; a field of
\* any kind but enum-variant and otherwise falls to the `_` arm and is refused.
not_an_enum_variant(pattern) == pattern.kind # "EnumVariant"
is_otherwise_field(pattern) == pattern.kind = "Otherwise"

\* match map.entry(path) { Occupied(_) => {}, Vacant(entry) => entry.insert(..) }
insert_overwrites(map, path, pattern_path) == (path :> pattern_path) @@ map
entry_insert_if_vacant(map, path, pattern_path) ==
    IF path \in DOMAIN map THEN map ELSE (path :> pattern_path) @@ map

insert_tuple_path_patterns(patterns, pattern_path, path, acc) ==
    LET index == Len(path)
        by == "insert_tuple_path_patterns"
        bad == MapAcc(acc.map,
                      Append(acc.diags,
                             Diag("UnsupportedMatchArmNotAVariant", pattern_path.arm_index,
                                  pattern_path.pattern_index, index + 1, <<>>, by)),
                      FALSE)
    IN  IF index = Len(patterns)
        THEN MapAcc(entry_insert_if_vacant(acc.map, path, pattern_path), acc.diags, TRUE)
        ELSE LET pattern == patterns[index + 1]
             IN  IF pattern.kind = "EnumVariant"
                 THEN IF pattern.enum # index + 1
                      THEN bad
                      ELSE insert_tuple_path_patterns(
                               patterns, pattern_path, Append(path, pattern.variant), acc)
                 ELSE IF is_otherwise_field(pattern)
                 THEN InsertEachVariant(patterns, pattern_path, path, 1, acc)
                 ELSE bad

\* concrete_variants.iter().try_for_each(...): stops at the first failure.
InsertEachVariant(patterns, pattern_path, path, v, acc) ==
    IF v > NumVariants \/ ~acc.ok THEN acc
    ELSE InsertEachVariant(patterns, pattern_path, path, v + 1,
             insert_tuple_path_patterns(patterns, pattern_path, Append(path, v), acc))

\* ----------------------------------------------- get_variants_to_arm_map_tuple
RECURSIVE TupleMapFrom(_, _, _, _)
TupleMapFrom(as, a, p, acc) ==
    IF a > Len(as) THEN acc
    ELSE IF p > Len(as[a]) THEN TupleMapFrom(as, a + 1, 1, acc)
    ELSE
        LET pattern == as[a][p]
            by == "get_variants_to_arm_map_tuple"
        IN  IF pattern.kind = "Otherwise"
            THEN TupleMapFrom(as, a + 1, 1, acc)
            ELSE IF pattern.kind # "Tuple"
            THEN MapAcc(acc.map,
                        Append(acc.diags,
                               Diag("UnsupportedMatchArmNotAVariant", a, p, 0, <<>>, by)),
                        FALSE)
            ELSE LET map_size == Cardinality(DOMAIN acc.map)
                     ins == insert_tuple_path_patterns(
                                pattern.fields, PatternPath(a, p), <<>>, acc)
                 IN  IF ~ins.ok THEN ins
                     ELSE IF Cardinality(DOMAIN ins.map) = map_size
                     THEN TupleMapFrom(as, a, p + 1,
                              MapAcc(ins.map,
                                     Append(ins.diags,
                                            Diag("UnreachableMatchArm", a, p, 0, <<>>, by)),
                                     TRUE))
                     ELSE TupleMapFrom(as, a, p + 1, ins)

get_variants_to_arm_map_tuple(as) ==
    TupleMapFrom(as, 1, 1, MapAcc(<<>>, <<>>, TRUE))

\* variant_map.get(key).or(otherwise_variant.as_ref()); None when both miss.
LookupPathWildcardFirst(map, key, ov) ==
    IF ov # None THEN ov ELSE IF key \in DOMAIN map THEN map[key] ELSE None
LookupPath(map, key, ov) ==
    IF key \in DOMAIN map THEN map[key] ELSE ov

\* ------------------------------------------------------------------ leaves
\* MatchLeafBuilder: arm_index, lowerin_result and the builder (its block).
\* `path` (the variant or variant path the leaf was built for) and
\* `pattern_index` (the pattern it was lowered against) are kept for reference.
MatchLeafBuilder(a, p, path, r, b) ==
    [arm_index |-> a, pattern_index |-> p, path |-> path, lowerin_result |-> r,
     builder |-> b]

\* MatchArm { arm_selector, block_id, var_ids }
MatchArm(sel, b, vs) == [arm_selector |-> sel, block_id |-> b, var_ids |-> vs]

\* A Match terminator: the MatchInfo (shape, function, arms), the block it ends
\* (0: the builder of the match expression), and for the confluence of an arm
\* (`join`) the sealed leaves that flow into it.
\* `n` is num_of_arms of a Value match and the upper bound of the bounded_int
\* of a downcast; 0 elsewhere.
MatchInfo(shape, fn, n, as) == [shape |-> shape, function |-> fn, n |-> n, arms |-> as]
NoMatchInfo == MatchInfo("None", "", 0, <<>>)

\* MatchArmSelector: a variant of the matched enum, a named corelib variant,
\* or a value.
VariantId(v) == <<"VariantId", v>>
CoreVariant(name) == <<name, 0>>
Value(i) == <<"Value", i>>
Terminator(info, b, join, sealed) ==
    [info |-> info, block |-> b, join |-> join, sealed |-> sealed]

\* What the external lower_single_pattern may return on a pattern: it is only
\* called on an enum-variant pattern with an inner pattern.
SinglePatternOutcomes(pattern) ==
    IF pattern.kind = "EnumVariant" /\ pattern.inner THEN {"Ok", "Err"} ELSE {"Ok"}

\* The patterns the emitters accept at a leaf; the others hit unreachable!().
IsLeafPattern(pattern) == pattern.kind \in {"EnumVariant", "Otherwise"}

\* -------------------------------------------------------- group_match_arms
\* The leaves left in the order of their registration.
registration_order(leaves) == leaves

\* .sorted_by_key(arm_index): a stable sort.
sorted_by_key(leaves) ==
    LET top == IF Len(leaves) = 0 THEN 0
               ELSE Max({leaves[i].arm_index : i \in 1 .. Len(leaves)})
        ofArm(a) == LET isArm(l) == l.arm_index = a IN SelectSeq(leaves, isArm)
    IN  Flatten([a \in 1 .. top |-> ofArm(a)])

\* .group_by(arm_index): the runs of consecutive leaves with the same key.
RECURSIVE group_by(_)
group_by(leaves) ==
    IF Len(leaves) = 0 THEN <<>>
    ELSE LET rest == group_by(Tail(leaves))
         IN  IF Len(rest) > 0 /\ Head(rest)[1].arm_index = Head(leaves).arm_index
             THEN <<(<<Head(leaves)>> \o Head(rest))>> \o Tail(rest)
             ELSE <<(<<Head(leaves)>>)>> \o rest

GroupsUnsorted(leaves) == group_by(leaves)
Groups(leaves) == group_by(sorted_by_key(leaves))

\* A sealed block: the arm it belongs to, its block, and whether it carries the
\* arm's body or the error of a failed inner pattern.
Sealed(a, b, k) == [arm_index |-> a, block |-> b, kind |-> k]

\* lowering_flow_error_to_sealed_block: the leaf is sealed as an
\* error-carrying block.
lowering_flow_error_to_sealed_block(a, b) == Sealed(a, b, "error")

\* The external services a group calls, any of which may fail; "none": all of
\* them succeed.  lowered_expr_to_block_scope_end is only called on a leaf
\* whose inner pattern was lowered.
GroupServices(group) ==
    IF Len(group) = 1
    THEN IF group[1].lowerin_result = "Ok" THEN {"none", "lower_tail_expr"} ELSE {"none"}
    ELSE {"none", "merge_and_end_with_match", "lower_tail_expr"}
             \cup (IF \E i \in 1 .. Len(group) : group[i].lowerin_result = "Ok"
                   THEN {"lowered_expr_to_block_scope_end"} ELSE {})

\* The single-leaf branch lowers the body only when the inner pattern was
\* lowered; otherwise the leaf becomes the arm's (error) block.
SingleLeafAlwaysLowers(leaf) == TRUE
SingleLeafLowersBody(leaf) == leaf.lowerin_result = "Ok"

\* The effect of one group: whether lower_tail_expr is invoked, the sealed
\* children and the confluence of a multi-leaf arm, the group's final block,
\* and the service that failed ("" when none did).  `outer` is the block of the
\* confluence, `fail` the failing service.
GroupEffect(t, c, j, s, f) ==
    [tail |-> t, children |-> c, joined |-> j, sealed |-> s, failed_by |-> f]

group_arm(group, fail, outer) ==
    LET a == group[1].arm_index
    IN  IF Len(group) = 1
        THEN IF SingleLeafLowersBody(group[1])
             THEN IF fail = "lower_tail_expr"
                  THEN GroupEffect(TRUE, <<>>, FALSE, <<>>, fail)
                  ELSE GroupEffect(TRUE, <<>>, FALSE,
                                   <<Sealed(a, group[1].builder, "body")>>, "")
             ELSE GroupEffect(FALSE, <<>>, FALSE,
                      <<lowering_flow_error_to_sealed_block(a, group[1].builder)>>, "")
        ELSE LET children ==
                     [i \in 1 .. Len(group) |->
                         IF group[i].lowerin_result = "Ok"
                         THEN Sealed(a, group[i].builder, "unit")
                         ELSE lowering_flow_error_to_sealed_block(a, group[i].builder)]
             IN  IF fail = "lowered_expr_to_block_scope_end"
                 THEN GroupEffect(FALSE, <<>>, FALSE, <<>>, fail)
                 ELSE IF fail = "merge_and_end_with_match"
                 THEN GroupEffect(FALSE, children, FALSE, <<>>, fail)
                 ELSE IF fail = "lower_tail_expr"
                 THEN GroupEffect(TRUE, children, TRUE, <<>>, fail)
                 ELSE GroupEffect(TRUE, children, TRUE, <<Sealed(a, outer, "body")>>, "")

\* empty_match_info: the shape of the enclosing match with an empty arm list.
EmptyMatchInfo ==
    IF kind \in {"enum", "tuple"} THEN MatchInfo("Enum", "", 0, <<>>)
    ELSE IF kind = "extern" THEN MatchInfo("Extern", "extern_enum.function", 0, <<>>)
    ELSE MatchInfo("Extern", "felt252_is_zero", 0, <<>>)

\* -------------------------------------------------------------------- Init
NoFelt ==
    [max |-> 0, literals_to_arm_map |-> <<>>, threshold |-> 0, strategy |-> "none",
     arm_index |-> 1, pattern_index |-> 1, stack |-> <<>>, builder |-> 0,
     prev_threshold |-> -1, prev_strategy |-> "none", prev_result |-> "Pending",
     prev_failed_by |-> "", prev_routes |-> <<>>]

Fresh ==
    /\ pc = "start"
    /\ otherwise_variant = None
    /\ variant_map = <<>>
    /\ diagnostics = <<>>
    /\ item_results = <<>>
    /\ leaves_builders = <<>>
    /\ block_ids = <<>>
    /\ arm_var_ids = <<>>
    /\ n_blocks = 0
    /\ n_vars = 0
    /\ var_requests = <<>>
    /\ current_path = <<>>
    /\ current_var_ids = <<>>
    /\ frames = <<>>
    /\ felt = NoFelt
    /\ match_info = NoMatchInfo
    /\ matches = <<>>
    /\ groups_done = 0
    /\ tail_calls = <<>>
    /\ sealed_blocks = <<>>
    /\ result = "Pending"
    /\ failed_by = ""

InitEnum ==
    /\ kind \in {"enum", "extern"}
    /\ arms \in ArmLists(EnumPatterns, MaxEnumPats)
    /\ matched_ty \in {Ty("enum", n, <<>>) :
                          n \in IF kind = "enum" THEN 0 .. MaxSnapshots ELSE {0}}
    /\ Fresh

InitTuple ==
    /\ kind = "tuple"
    /\ arms \in ArmLists(TuplePatterns, MaxTuplePats)
    /\ matched_ty \in
           {Ty("tuple", n, types) :
               n \in 0 .. MaxSnapshots,
               types \in [1 .. TupleArity ->
                             {Ty("enum", k, <<>>) : k \in 0 .. MaxSnapshots}]}
    /\ Fresh

InitFelt ==
    /\ kind = "felt"
    /\ matched_ty = Ty("felt252", 0, <<>>)
    /\ arms \in ArmLists(FeltPatterns, MaxFeltPats)
    /\ Fresh

\* The call ends in failure: the builder is dropped by the caller.
Fail(by) ==
    /\ result' = "Failed"
    /\ failed_by' = by
    /\ pc' = "done"

Panic ==
    /\ result' = "Panic"
    /\ failed_by' = "panic"
    /\ pc' = "done"

\* ------------------------------------------------------------ classification
\* lower_expr_match / lower_optimized_extern_match / lower_expr_match_tuple:
\* let otherwise_variant = get_underscore_pattern_path(ctx, arms);
GetUnderscorePatternPath ==
    /\ pc = "start"
    /\ kind \in {"enum", "extern", "tuple"}
    /\ LET ov == FindOtherwise(arms)
       IN  /\ otherwise_variant' = ov
           /\ diagnostics' =
                  diagnostics \o (IF ov = None THEN <<>> ELSE UnreachableAfter(arms, ov))
    /\ pc' = "map"
    /\ UNCHANGED <<kind, arms, matched_ty, var_requests,
                   variant_map, item_results, leaves_builders, block_ids,
                   arm_var_ids, n_blocks, n_vars, current_path, current_var_ids, frames,
                   felt, match_info, matches, groups_done, tail_calls, sealed_blocks,
                   result, failed_by>>

\* A call of lower_full_match_tree: the block of its builder, the next variant
\* to visit, the results of the variants visited, their blocks and variables;
\* for reference, the path and the variables of the context when it was called.
Frame(b, path, var_ids) ==
    [subscope |-> b, next |-> 1, results |-> <<>>, block_ids |-> <<>>,
     arm_var_ids |-> <<>>, entry_path |-> path, entry_var_ids |-> var_ids]

\* match_tuple_ctx.current_path.variants.pop() and current_var_ids.pop(), made
\* by the iteration once its call has returned, whatever the result.
pop_on_success(variants, call_result) ==
    IF call_result = "Ok" THEN SubSeq(variants, 1, Len(variants) - 1) ELSE variants
pop_current_path(variants, call_result) == SubSeq(variants, 1, Len(variants) - 1)
pop_current_var_ids(ids) == SubSeq(ids, 1, Len(ids) - 1)

\* let variant_map = get_variant_to_arm_map(ctx, arms.iter().take(..), enum)?;
\* let variants_map = get_variants_to_arm_map_tuple(ctx, arms.iter().take(..), ..)?;
GetVariantToArmMap ==
    /\ pc = "map"
    /\ LET taken == TakeArms(arms, otherwise_variant)
           r == IF kind = "tuple" THEN get_variants_to_arm_map_tuple(taken)
                ELSE get_variant_to_arm_map(taken, 1)
       IN  /\ diagnostics' = diagnostics \o r.diags
           /\ IF r.ok
              THEN /\ variant_map' = r.map
                   /\ pc' = "emit"
                   /\ frames' = IF kind = "tuple" THEN <<Frame(0, <<>>, <<>>)>>
                                ELSE frames
                   /\ UNCHANGED <<result, failed_by>>
              ELSE /\ Fail("UnsupportedMatchArmNotAVariant")
                   /\ UNCHANGED <<variant_map, frames>>
    /\ UNCHANGED <<kind, arms, matched_ty, var_requests,
                   otherwise_variant, item_results, leaves_builders,
                   block_ids, arm_var_ids, n_blocks, n_vars, current_path,
                   current_var_ids, felt, match_info, matches, groups_done, tail_calls,
                   sealed_blocks>>

\* The first Err of a sequence of results, "Ok" when there is none.
FirstError(results) ==
    LET errs == {i \in 1 .. Len(results) : results[i] # "Ok"}
    IN  IF errs = {} THEN "Ok" ELSE results[Min(errs)]

\* .map(..).collect::<Vec<_>>() runs the closure on every variant, whatever
\* the results so far; only then are the results collected into one.
CollectStopsAtFirstError(results) == FirstError(results) = "Ok"
collect_vec_continues(results) == TRUE

\* ---------------------------------------------------------- flat enum emitter
\* One iteration of concrete_variants.iter().map(..) in lower_expr_match
\* (kind "enum") or lower_optimized_extern_match (kind "extern").  The extern
\* emitter creates the subscope and the arm variables before the lookup, the
\* plain one after it.
EmitVariant ==
    /\ pc = "emit"
    /\ kind \in {"enum", "extern"}
    /\ Len(item_results) < NumVariants
    /\ collect_vec_continues(item_results)
    /\ LET concrete_variant == Len(item_results) + 1
           path == LookupPath(variant_map, <<concrete_variant>>, otherwise_variant)
           by == IF kind = "enum" THEN "lower_expr_match"
                 ELSE "lower_optimized_extern_match"
           block_id == n_blocks + 1
           var_id == n_vars + 1
           n_snapshots == peel_snapshots(matched_ty)[1]
           allocated == /\ n_blocks' = block_id
                        /\ n_vars' = var_id
                        /\ block_ids' = Append(block_ids, block_id)
                        /\ arm_var_ids' = Append(arm_var_ids, <<var_id>>)
                        /\ var_requests' =
                               IF kind = "enum"
                               THEN (var_id :> wrap_in_snapshots(
                                                   VariantTy(1, concrete_variant),
                                                   n_snapshots)) @@ var_requests
                               ELSE var_requests
       IN  IF path = None
           THEN /\ diagnostics' =
                       Append(diagnostics,
                              Diag("MissingMatchArm", 0, 0, 0, <<concrete_variant>>, by))
                /\ item_results' = Append(item_results, "MissingMatchArm")
                /\ IF kind = "extern" THEN allocated
                   ELSE UNCHANGED <<n_blocks, n_vars, block_ids, arm_var_ids,
                                    var_requests>>
                /\ UNCHANGED <<leaves_builders, pc, result, failed_by>>
           ELSE LET pattern == arms[path.arm_index][path.pattern_index]
                IN  IF ~IsLeafPattern(pattern)
                    THEN /\ Panic
                         /\ UNCHANGED <<diagnostics, item_results, leaves_builders,
                                        n_blocks, n_vars, block_ids, arm_var_ids,
                                        var_requests>>
                    ELSE /\ allocated
                         /\ \E lowering_inner_pattern_result \in
                                    SinglePatternOutcomes(pattern) :
                                leaves_builders' =
                                    Append(leaves_builders,
                                           MatchLeafBuilder(path.arm_index,
                                               path.pattern_index, <<concrete_variant>>,
                                               lowering_inner_pattern_result, block_id))
                         /\ item_results' = Append(item_results, "Ok")
                         /\ UNCHANGED <<diagnostics, pc, result, failed_by>>
    /\ UNCHANGED <<kind, arms, matched_ty, otherwise_variant, variant_map,
                   current_path, current_var_ids, frames, felt, match_info, matches,
                   groups_done, tail_calls, sealed_blocks>>


\* .collect::<Vec<_>>().into_iter().collect::<LoweringResult<Vec<_>>>()?
CollectVariants ==
    /\ pc = "emit"
    /\ kind \in {"enum", "extern"}
    /\ (Len(item_results) = NumVariants \/ ~collect_vec_continues(item_results))
    /\ IF FirstError(item_results) = "Ok"
       THEN /\ pc' = "group"
            /\ UNCHANGED <<result, failed_by>>
       ELSE Fail(FirstError(item_results))
    /\ UNCHANGED <<kind, arms, matched_ty, var_requests,
                   otherwise_variant, variant_map, diagnostics,
                   item_results, leaves_builders, block_ids, arm_var_ids, n_blocks,
                   n_vars, current_path, current_var_ids, frames, felt, match_info,
                   matches, groups_done, tail_calls, sealed_blocks>>

\* ------------------------------------------------------------ the arm joiner
\* One group of group_match_arms: the leaves of one arm.
GroupArm ==
    /\ pc = "group"
    /\ groups_done < Len(Groups(leaves_builders))
    /\ LET group == Groups(leaves_builders)[groups_done + 1]
           outer == n_blocks + 1
       IN  \E fail \in GroupServices(group) :
               LET e == group_arm(group, fail, outer)
               IN  /\ n_blocks' = IF Len(group) > 1 THEN outer ELSE n_blocks
                   /\ tail_calls' = IF e.tail THEN Append(tail_calls, group[1].arm_index)
                                    ELSE tail_calls
                   /\ matches' =
                          IF e.joined
                          THEN Append(matches,
                                      Terminator(EmptyMatchInfo, outer, TRUE, e.children))
                          ELSE matches
                   /\ sealed_blocks' = sealed_blocks \o e.sealed
                   /\ IF e.failed_by = ""
                      THEN /\ groups_done' = groups_done + 1
                           /\ UNCHANGED <<pc, result, failed_by>>
                      ELSE /\ Fail(e.failed_by)
                           /\ UNCHANGED groups_done
    /\ UNCHANGED <<kind, arms, matched_ty, var_requests,
                   otherwise_variant, variant_map, diagnostics,
                   item_results, leaves_builders, block_ids, arm_var_ids, n_vars,
                   current_path, current_var_ids, frames, felt, match_info>>

\* zip_eq(zip_eq(concrete_variants, block_ids), arm_var_ids) of the flat emitters
FlatMatchInfo ==
    MatchInfo(IF kind = "enum" THEN "Enum" ELSE "Extern",
              IF kind = "enum" THEN "" ELSE "extern_enum.function", 0,
              [v \in 1 .. NumVariants |->
                  MatchArm(VariantId(v), block_ids[v], arm_var_ids[v])])

\* builder.merge_and_end_with_match(ctx, match_info, sealed_blocks, location):
\* the Match terminator of the match expression; the builder service may fail.
MergeAndEndWithMatch ==
    /\ pc = "group"
    /\ kind # "leaves"
    /\ groups_done = Len(Groups(leaves_builders))
    /\ LET info == IF kind \in {"enum", "extern"} THEN FlatMatchInfo ELSE match_info
       IN  \E ok \in BOOLEAN :
               IF ok
               THEN /\ matches' = Append(matches, Terminator(info, 0, FALSE, sealed_blocks))
                    /\ match_info' = info
                    /\ result' = "Ok"
                    /\ pc' = "done"
                    /\ UNCHANGED failed_by
               ELSE /\ Fail("merge_and_end_with_match")
                    /\ UNCHANGED <<matches, match_info>>
    /\ UNCHANGED <<kind, arms, matched_ty, var_requests,
                   otherwise_variant, variant_map, diagnostics,
                   item_results, leaves_builders, block_ids, arm_var_ids, n_blocks,
                   n_vars, current_path, current_var_ids, frames, felt, groups_done,
                   tail_calls, sealed_blocks>>

\* --------------------------------------------------------- tuple emitter
Top == frames[Len(frames)]
SetTop(f) == [frames EXCEPT ![Len(frames)] = f]

\* extracted_enums_details[index].n_snapshots + n_snapshots_outer
axis_snapshots_only(n_snapshots, n_snapshots_outer) == n_snapshots
tuple_snapshots(n_snapshots, n_snapshots_outer) == n_snapshots + n_snapshots_outer

\* One iteration of concrete_variants.iter().map(..) in lower_full_match_tree,
\* up to the call it makes: a subscope and a payload variable for the variant,
\* the variant and the variable pushed on the context; below the last axis
\* the iteration calls lower_full_match_tree on the subscope.
TreeVisit ==
    /\ pc = "emit"
    /\ kind = "tuple"
    /\ Len(frames) > 0
    /\ Len(current_path) = Len(frames) - 1
    /\ Top.next <= NumVariants
    /\ collect_vec_continues(Top.results)
    /\ LET concrete_variant == Top.next
           block_id == n_blocks + 1
           var_id == n_vars + 1
           index == Len(current_path)
           top == [Top EXCEPT !.next = @ + 1,
                              !.block_ids = Append(@, block_id),
                              !.arm_var_ids = Append(@, <<var_id>>)]
           n_snapshots == peel_snapshots(matched_ty.types[index + 1])[1]
           n_snapshots_outer == peel_snapshots(matched_ty)[1]
       IN  /\ n_blocks' = block_id
           /\ n_vars' = var_id
           /\ var_requests' =
                  (var_id :> wrap_in_snapshots(
                                 VariantTy(index + 1, concrete_variant),
                                 tuple_snapshots(n_snapshots, n_snapshots_outer)))
                      @@ var_requests
           /\ current_path' = Append(current_path, concrete_variant)
           /\ current_var_ids' = Append(current_var_ids, var_id)
           /\ frames' = IF index + 1 = TupleArity THEN SetTop(top)
                        ELSE Append(SetTop(top),
                                    Frame(block_id, current_path', current_var_ids'))
    /\ UNCHANGED <<kind, arms, matched_ty, pc, otherwise_variant, variant_map,
                   diagnostics, item_results, leaves_builders, block_ids, arm_var_ids, felt,
                   match_info, matches, groups_done, tail_calls, sealed_blocks, result,
                   failed_by>>

\* What the lowering of the field patterns of a tuple arm may come to: the
\* fields are lowered in order and the first failure ends the walk
\* (.collect::<LoweringResult<Vec<_>>>()); a field of another kind than
\* enum-variant or otherwise hits unreachable!().
TupleLeafOutcomes(fields) ==
    LET bad == {i \in 1 .. Len(fields) : ~IsLeafPattern(fields[i])}
        stop == IF bad = {} THEN Len(fields) + 1 ELSE Min(bad)
    IN  (IF bad = {} THEN {"Ok"} ELSE {"Panic"})
            \cup (IF \E i \in 1 .. (stop - 1) : "Err" \in SinglePatternOutcomes(fields[i])
                  THEN {"Err"} ELSE {})

\* lower_tuple_match_arm on the subscope of the last axis, then the pops of
\* the iteration that called it.
TreeLeaf ==
    /\ pc = "emit"
    /\ kind = "tuple"
    /\ Len(frames) > 0
    /\ Len(current_path) = Len(frames)
    /\ LET by == "lower_tuple_match_arm"
           pattern_path == LookupPath(variant_map, current_path, otherwise_variant)
           block_id == Top.block_ids[Len(Top.block_ids)]
           returns(r) == /\ frames' = SetTop([Top EXCEPT !.results = Append(@, r)])
                         /\ current_path' = pop_current_path(current_path, r)
                         /\ current_var_ids' = pop_current_var_ids(current_var_ids)
                         /\ UNCHANGED <<pc, result, failed_by>>
       IN  IF pattern_path = None
           THEN /\ diagnostics' =
                       Append(diagnostics,
                              Diag("MissingMatchArm", 0, 0, 0, current_path, by))
                /\ returns("MissingMatchArm")
                /\ UNCHANGED leaves_builders
           ELSE LET pattern == arms[pattern_path.arm_index][pattern_path.pattern_index]
                IN  IF pattern.kind # "Tuple"
                    THEN /\ diagnostics' =
                                Append(diagnostics,
                                       Diag("UnsupportedMatchArmNotATuple",
                                            pattern_path.arm_index,
                                            pattern_path.pattern_index, 0, <<>>, by))
                         /\ returns("UnsupportedMatchArmNotATuple")
                         /\ UNCHANGED leaves_builders
                    ELSE \E lowering_inner_pattern_result \in
                                 TupleLeafOutcomes(pattern.fields) :
                             IF lowering_inner_pattern_result = "Panic"
                             THEN /\ Panic
                                  /\ UNCHANGED <<diagnostics, leaves_builders, frames,
                                                 current_path, current_var_ids>>
                             ELSE /\ leaves_builders' =
                                         Append(leaves_builders,
                                                MatchLeafBuilder(pattern_path.arm_index,
                                                    pattern_path.pattern_index,
                                                    current_path,
                                                    lowering_inner_pattern_result,
                                                    block_id))
                                  /\ returns("Ok")
                                  /\ UNCHANGED diagnostics
    /\ UNCHANGED <<kind, arms, matched_ty, var_requests,
                   otherwise_variant, variant_map, item_results, block_ids,
                   arm_var_ids, n_blocks, n_vars, felt, match_info, matches,
                   groups_done, tail_calls, sealed_blocks>>

\* zip_eq(zip_eq(&concrete_variants, block_ids), arm_var_ids): the arm of a
\* variant gets the block and the variable made for it.
reversed_match_tree_arms(blocks, var_ids) ==
    [v \in 1 .. NumVariants |->
        MatchArm(VariantId(v), blocks[NumVariants + 1 - v], var_ids[v])]
full_match_tree_arms(blocks, var_ids) ==
    [v \in 1 .. NumVariants |-> MatchArm(VariantId(v), blocks[v], var_ids[v])]

\* The end of a call of lower_full_match_tree: the results of its variants are
\* collected (the first Err is returned), else its MatchInfo is built.  The
\* caller finalizes the subscope with it and pops the context; the outermost
\* call returns to lower_expr_match_tuple.
TreeReturn ==
    /\ pc = "emit"
    /\ kind = "tuple"
    /\ Len(frames) > 0
    /\ Len(current_path) = Len(frames) - 1
    /\ (Top.next > NumVariants \/ ~collect_vec_continues(Top.results))
    /\ LET index == Len(frames) - 1
           err == FirstError(Top.results)
           info == IF err = "Ok"
                   THEN MatchInfo("Enum", "", 0,
                                  full_match_tree_arms(Top.block_ids, Top.arm_var_ids))
                   ELSE NoMatchInfo
       IN  IF index = 0
           THEN /\ frames' = <<>>
                /\ UNCHANGED <<current_path, current_var_ids, matches>>
                /\ IF err = "Ok"
                   THEN /\ match_info' = info
                        /\ pc' = "group"
                        /\ UNCHANGED <<result, failed_by>>
                   ELSE /\ Fail(err)
                        /\ UNCHANGED match_info
           ELSE /\ frames' = [SubSeq(frames, 1, index) EXCEPT
                                 ![index].results = Append(@, err)]
                /\ current_path' = pop_current_path(current_path, err)
                /\ current_var_ids' = pop_current_var_ids(current_var_ids)
                /\ matches' = IF err = "Ok"
                              THEN Append(matches,
                                          Terminator(info, Top.subscope, FALSE, <<>>))
                              ELSE matches
                /\ UNCHANGED <<pc, result, failed_by, match_info>>
    /\ UNCHANGED <<kind, arms, matched_ty, var_requests,
                   otherwise_variant, variant_map, diagnostics,
                   item_results, leaves_builders, block_ids, arm_var_ids, n_blocks,
                   n_vars, felt, groups_done, tail_calls, sealed_blocks>>

\* ------------------------------------------------------- felt252 emitter
\* The pre-validation loop of lower_expr_match_felt252 over all patterns.
FeltAcc(mx, m, o, d) == [max |-> mx, map |-> m, otherwise_exist |-> o, diags |-> d]

RECURSIVE FeltScanFrom(_, _, _, _)
FeltScanFrom(as, a, p, acc) ==
    IF a > Len(as) THEN acc
    ELSE IF p > Len(as[a]) THEN FeltScanFrom(as, a + 1, 1, acc)
    ELSE
        LET pattern == as[a][p]
            by == "lower_expr_match_felt252"
            stop(k, da, dp) ==
                FeltAcc(acc.max, acc.map, acc.otherwise_exist,
                        <<Diag(k, da, dp, 0, <<>>, by)>>)
        IN  IF acc.otherwise_exist THEN stop("UnreachableMatchArm", a, p)
            ELSE IF pattern.kind = "Literal"
            THEN IF pattern.value < 0
                 THEN stop("UnsupportedMatchArmNonSequential", 0, 0)
                 ELSE IF pattern.value \in DOMAIN acc.map
                 THEN stop("UnreachableMatchArm", a, p)
                 ELSE FeltScanFrom(as, a, p + 1,
                          FeltAcc(IF pattern.value > acc.max THEN pattern.value
                                  ELSE acc.max,
                                  (pattern.value :> a) @@ acc.map, FALSE, <<>>))
            ELSE IF pattern.kind = "Otherwise"
            THEN FeltScanFrom(as, a, p + 1, FeltAcc(acc.max, acc.map, TRUE, <<>>))
            ELSE stop("UnsupportedMatchArmNotALiteral", a, p)

\* max + 1 on a usize: on usize::MAX a build with overflow checks panics, a
\* build without them wraps to 0.
Overflow == 0 - 1
add_one(max, overflow_checks) ==
    IF max = UsizeMax THEN (IF overflow_checks THEN Overflow ELSE 0)
    ELSE max + 1

\* The pre-validation with the check of the literal range made before the
\* check of the wildcard.
felt252_validation_range_first(as, overflow_checks) ==
    LET by == "lower_expr_match_felt252"
        global(acc, k) ==
            FeltAcc(acc.max, acc.map, acc.otherwise_exist,
                    <<Diag(k, 0, 0, 0, <<>>, by)>>)
        empty == FeltAcc(0, <<>>, FALSE, <<>>)
        scan == FeltScanFrom(as, 1, 1, empty)
    IN  IF Len(as) = 0 THEN global(empty, "NonExhaustiveMatchFelt252")
        ELSE IF Len(scan.diags) > 0 THEN scan
        ELSE IF add_one(scan.max, overflow_checks) = Overflow THEN global(scan, "panic")
        ELSE IF add_one(scan.max, overflow_checks) # Cardinality(DOMAIN scan.map)
        THEN global(scan, "UnsupportedMatchArmNonSequential")
        ELSE IF ~scan.otherwise_exist THEN global(scan, "NonExhaustiveMatchFelt252")
        ELSE scan

\* The whole pre-validation: the scan between the check of the empty arm list
\* and the checks of the wildcard and of the literal range.  A diagnostic of
\* kind "panic" stands for the panic of the addition: nothing is reported.
felt252_validation(as, overflow_checks) ==
    LET by == "lower_expr_match_felt252"
        global(acc, k) ==
            FeltAcc(acc.max, acc.map, acc.otherwise_exist,
                    <<Diag(k, 0, 0, 0, <<>>, by)>>)
        empty == FeltAcc(0, <<>>, FALSE, <<>>)
        scan == FeltScanFrom(as, 1, 1, empty)
    IN  IF Len(as) = 0 THEN global(empty, "NonExhaustiveMatchFelt252")
        ELSE IF Len(scan.diags) > 0 THEN scan
        ELSE IF ~scan.otherwise_exist THEN global(scan, "NonExhaustiveMatchFelt252")
        ELSE IF add_one(scan.max, overflow_checks) = Overflow THEN global(scan, "panic")
        ELSE IF add_one(scan.max, overflow_checks) # Cardinality(DOMAIN scan.map)
        THEN global(scan, "UnsupportedMatchArmNonSequential")
        ELSE scan

ValidateFelt ==
    /\ pc = "start"
    /\ kind = "felt"
    /\ \E overflow_checks \in BOOLEAN :
           LET v == felt252_validation(arms, overflow_checks)
           IN  IF Len(v.diags) > 0 /\ v.diags[1].kind = "panic"
               THEN /\ Panic
                    /\ UNCHANGED <<felt, diagnostics>>
               ELSE /\ diagnostics' = diagnostics \o v.diags
                    /\ IF Len(v.diags) > 0
                       THEN /\ Fail(v.diags[1].kind)
                            /\ UNCHANGED felt
                       ELSE /\ felt' = [felt EXCEPT !.max = v.max,
                                                    !.literals_to_arm_map = v.map]
                            /\ pc' = "strategy"
                            /\ UNCHANGED <<result, failed_by>>
    /\ UNCHANGED <<kind, arms, matched_ty, var_requests,
                   otherwise_variant, variant_map, item_results,
                   leaves_builders, block_ids, arm_var_ids, n_blocks, n_vars,
                   current_path, current_var_ids, frames, match_info, matches,
                   groups_done, tail_calls, sealed_blocks>>

\* The values of the flag numeric_match_optimization_min_arms_threshold; NoFlag:
\* the flag is not set.
NoFlag == 0 - 1
Flags == (0 .. MaxThreshold) \cup {NoFlag}

\* .get_flag(..).map(..).unwrap_or(usize::MAX)
numeric_match_optimization_threshold(flag) ==
    IF flag = NoFlag THEN UsizeMax ELSE flag

\* if max <= numeric_match_optimization_threshold(ctx) { cascade } else { table }
CascadeAboveThreshold(max, threshold) == max >= threshold
UsesCascade(max, threshold) == max <= threshold

ChooseStrategy ==
    /\ pc = "strategy"
    /\ \E flag \in Flags :
           LET threshold == numeric_match_optimization_threshold(flag)
           IN  felt' = [felt EXCEPT
                           !.threshold = threshold,
                           !.strategy = IF UsesCascade(felt.max, threshold)
                                        THEN "cascade" ELSE "jump_table"]
    /\ pc' = "emit"
    /\ UNCHANGED <<kind, arms, matched_ty, var_requests,
                   otherwise_variant, variant_map, diagnostics,
                   item_results, leaves_builders, block_ids, arm_var_ids, n_blocks,
                   n_vars, current_path, current_var_ids, frames, match_info, matches,
                   groups_done, tail_calls, sealed_blocks, result, failed_by>>

\* The value a leaf of the wildcard stands for: any value that is no literal.
OtherValue == 0 - 1

IsZeroInfo(main_block_id, block_else_id, else_block_input_var_id) ==
    MatchInfo("Extern", "felt252_is_zero", 0,
              <<MatchArm(CoreVariant("jump_nz_zero"), main_block_id, <<>>),
                MatchArm(CoreVariant("jump_nz_nonzero"), block_else_id,
                         <<else_block_input_var_id>>)>>)

\* One call of lower_expr_felt252_arm(arm_index, pattern_index), up to the call
\* it makes on the else block or to its return.  A literal other than zero is
\* lowered by the external lower_expr_literal, which may fail.  The test of the
\* last literal tests
\* arm_index == expr.arms.len() - 2, underflows on a single arm: a debug build
\* panics, a release build wraps and the test is false.
CascadeStep ==
    /\ pc = "emit"
    /\ kind = "felt"
    /\ felt.strategy = "cascade"
    /\ LET a == felt.arm_index
           p == felt.pattern_index
           main_block_id == n_blocks + 1
           block_else_id == n_blocks + 2
           var_id == n_vars + 1
       IN  IF a > Len(arms)
           THEN /\ Panic
                /\ UNCHANGED <<felt, diagnostics, leaves_builders, n_blocks, n_vars>>
           ELSE IF p = Len(arms[a]) + 1
           THEN /\ felt' = [felt EXCEPT !.arm_index = a + 1, !.pattern_index = 1]
                /\ UNCHANGED <<diagnostics, leaves_builders, n_blocks, n_vars, pc,
                               result, failed_by>>
           ELSE IF arms[a][p].kind # "Literal"
           THEN /\ diagnostics' =
                       Append(diagnostics,
                              Diag("UnsupportedMatchArmNotALiteral", a, p, 0, <<>>,
                                   "lower_expr_felt252_arm"))
                /\ n_blocks' = block_else_id
                /\ Fail("UnsupportedMatchArmNotALiteral")
                /\ UNCHANGED <<felt, leaves_builders, n_vars>>
           ELSE LET info == IsZeroInfo(main_block_id, block_else_id, var_id)
                    level == [info |-> info, else_block |-> block_else_id,
                              literal |-> arms[a][p].value]
                    leaf == MatchLeafBuilder(a, p, <<arms[a][p].value>>, "Ok",
                                             main_block_id)
                    wild == MatchLeafBuilder(a + 1, 0, <<OtherValue>>, "Ok",
                                             block_else_id)
                IN  \E build \in {"debug", "release"}, literal_lowered \in BOOLEAN :
                        IF arms[a][p].value # 0 /\ ~literal_lowered
                        THEN /\ n_blocks' = block_else_id
                             /\ Fail("lower_expr_literal")
                             /\ UNCHANGED <<felt, diagnostics, leaves_builders,
                                            n_vars>>
                        ELSE IF p = Len(arms[a]) /\ Len(arms) < 2 /\ build = "debug"
                        THEN /\ Panic
                             /\ UNCHANGED <<felt, diagnostics, leaves_builders,
                                            n_blocks, n_vars>>
                        ELSE /\ n_blocks' = block_else_id
                             /\ n_vars' = var_id
                             /\ UNCHANGED <<diagnostics, result, failed_by>>
                             /\ IF p = Len(arms[a]) /\ Len(arms) >= 2
                                       /\ a = Len(arms) - 1
                                THEN /\ leaves_builders' =
                                            leaves_builders \o <<leaf, wild>>
                                     /\ felt' = [felt EXCEPT
                                                    !.stack = Append(@, level)]
                                     /\ pc' = "unwind"
                                ELSE /\ leaves_builders' = Append(leaves_builders, leaf)
                                     /\ felt' = [felt EXCEPT
                                                    !.stack = Append(@, level),
                                                    !.pattern_index = p + 1,
                                                    !.builder = block_else_id]
                                     /\ UNCHANGED pc
    /\ UNCHANGED <<kind, arms, matched_ty, var_requests,
                   otherwise_variant, variant_map, item_results, block_ids,
                   arm_var_ids, current_path, current_var_ids, frames, match_info,
                   matches, groups_done, tail_calls, sealed_blocks>>

\* The returns of the calls of lower_expr_felt252_arm, innermost first: every
\* caller finalizes its else block with the MatchInfo its callee returned.
CascadeReturn ==
    /\ pc = "unwind"
    /\ LET n == Len(felt.stack)
       IN  /\ matches' =
                  matches \o [i \in 1 .. (n - 1) |->
                                 Terminator(felt.stack[n - i + 1].info,
                                            felt.stack[n - i].else_block, FALSE, <<>>)]
           /\ match_info' = felt.stack[1].info
    /\ pc' = "group"
    /\ UNCHANGED <<kind, arms, matched_ty, var_requests,
                   otherwise_variant, variant_map, diagnostics,
                   item_results, leaves_builders, block_ids, arm_var_ids, n_blocks,
                   n_vars, current_path, current_var_ids, frames, felt, groups_done,
                   tail_calls, sealed_blocks, result, failed_by>>

\* The arm of the leaf of the otherwise block: expr.arms.len() - 1, the last arm.
first_arm_index(expr_arms) == 1
otherwise_arm_index(expr_arms) == Len(expr_arms)

\* The jump table: lower_expr_match_index_enum on the in-range block, then the
\* otherwise block and the Match on the downcast.
LowerJumpTable ==
    /\ pc = "emit"
    /\ kind = "felt"
    /\ felt.strategy = "jump_table"
    /\ LET n == Cardinality(DOMAIN felt.literals_to_arm_map)
           in_range_block_input_var_id == n_vars + 1
           in_range_block_id == n_blocks + 1
           otherwise_block_id == n_blocks + n + 2
           inner_match_info ==
               MatchInfo("Value", "", n,
                         [i \in 1 .. n |->
                             MatchArm(Value(i - 1), in_range_block_id + i,
                                      <<in_range_block_input_var_id + i>>)])
       IN  /\ n_vars' = n_vars + n + 1
           /\ n_blocks' = otherwise_block_id
           /\ leaves_builders' =
                  leaves_builders
                      \o [i \in 1 .. n |->
                             MatchLeafBuilder(felt.literals_to_arm_map[i - 1], 0,
                                              <<i - 1>>, "Ok", in_range_block_id + i)]
                      \o <<MatchLeafBuilder(otherwise_arm_index(arms), 0,
                                            <<OtherValue>>, "Ok",
                                            otherwise_block_id)>>
           /\ matches' = Append(matches,
                                Terminator(inner_match_info, in_range_block_id, FALSE,
                                           <<>>))
           /\ match_info' =
                  MatchInfo("Extern", "downcast", felt.max,
                            <<MatchArm(CoreVariant("option_some"), in_range_block_id,
                                       <<in_range_block_input_var_id>>),
                              MatchArm(CoreVariant("option_none"), otherwise_block_id,
                                       <<>>)>>)
    /\ pc' = "group"
    /\ UNCHANGED <<kind, arms, matched_ty, var_requests,
                   otherwise_variant, variant_map, diagnostics,
                   item_results, block_ids, arm_var_ids, current_path, current_var_ids,
                   frames, felt, groups_done, tail_calls, sealed_blocks, result,
                   failed_by>>

\* The arm of the leaf whose block a value of the input reaches in the lowered
\* match.  In the cascade the value goes through the tests in order and takes
\* the zero branch of the first test whose literal it equals, else the nonzero
\* branch of the last test; in the jump table a value of 0 ..= max takes the
\* Some arm of the downcast and the arm of its selector, any other the None arm.
LeafArmAt(block) ==
    leaves_builders[CHOOSE j \in 1 .. Len(leaves_builders) :
                        leaves_builders[j].builder = block].arm_index

RouteCascade(value) ==
    LET hits == {k \in 1 .. Len(felt.stack) : felt.stack[k].literal = value}
    IN  IF hits # {}
        THEN LeafArmAt(felt.stack[Min(hits)].info.arms[1].block_id)
        ELSE LeafArmAt(felt.stack[Len(felt.stack)].info.arms[2].block_id)

RouteJumpTable(value) ==
    LET outer == match_info
        inner == matches[CHOOSE m \in 1 .. Len(matches) :
                             /\ ~matches[m].join
                             /\ matches[m].block = outer.arms[1].block_id].info
    IN  IF value \in 0 .. outer.n
        THEN LeafArmAt(inner.arms[value + 1].block_id)
        ELSE LeafArmAt(outer.arms[2].block_id)

InputValues == (0 .. felt.max) \cup {OtherValue}

Routes ==
    IF result # "Ok" THEN <<>>
    ELSE [value \in InputValues |->
             IF felt.strategy = "cascade" THEN RouteCascade(value)
             ELSE RouteJumpTable(value)]

\* The same match expression lowered once more, under another value of the
\* flag: the strategy, the threshold, the result and the routes of the first
\* lowering are remembered.
LowerAgain ==
    /\ pc = "done"
    /\ kind = "felt"
    /\ felt.strategy # "none"
    /\ felt.prev_strategy = "none"
    /\ felt' = [NoFelt EXCEPT !.prev_threshold = felt.threshold,
                              !.prev_strategy = felt.strategy,
                              !.prev_result = result,
                              !.prev_failed_by = failed_by,
                              !.prev_routes = Routes]
    /\ pc' = "start"
    /\ otherwise_variant' = None
    /\ variant_map' = <<>>
    /\ diagnostics' = <<>>
    /\ item_results' = <<>>
    /\ leaves_builders' = <<>>
    /\ block_ids' = <<>>
    /\ arm_var_ids' = <<>>
    /\ n_blocks' = 0
    /\ n_vars' = 0
    /\ var_requests' = <<>>
    /\ match_info' = NoMatchInfo
    /\ matches' = <<>>
    /\ groups_done' = 0
    /\ tail_calls' = <<>>
    /\ sealed_blocks' = <<>>
    /\ result' = "Pending"
    /\ failed_by' = ""
    /\ UNCHANGED <<kind, arms, matched_ty, current_path, current_var_ids, frames>>

\* ------------------------------------------- group_match_arms on its own
\* Any list of leaves: the arms they belong to and the results of their inner
\* patterns; every leaf has its own block.
LeafLists ==
    {[i \in 1 .. Len(s) |-> MatchLeafBuilder(s[i][1], 1, <<i>>, s[i][2], i)] :
        s \in SeqsUpTo((1 .. MaxLeafArm) \X {"Ok", "Err"}, MaxLeaves)}

InitLeaves ==
    /\ kind = "leaves"
    /\ arms = <<>>
    /\ matched_ty = Ty("enum", 0, <<>>)
    /\ var_requests = <<>>
    /\ pc = "group"
    /\ leaves_builders \in LeafLists
    /\ n_blocks = Len(leaves_builders)
    /\ otherwise_variant = None
    /\ variant_map = <<>>
    /\ diagnostics = <<>>
    /\ item_results = <<>>
    /\ block_ids = <<>>
    /\ arm_var_ids = <<>>
    /\ n_vars = 0
    /\ current_path = <<>>
    /\ current_var_ids = <<>>
    /\ frames = <<>>
    /\ felt = NoFelt
    /\ match_info = NoMatchInfo
    /\ matches = <<>>
    /\ groups_done = 0
    /\ tail_calls = <<>>
    /\ sealed_blocks = <<>>
    /\ result = "Pending"
    /\ failed_by = ""

\* group_match_arms returns Ok(sealed_blocks): every group was processed.
GroupMatchArmsReturn ==
    /\ pc = "group"
    /\ kind = "leaves"
    /\ groups_done = Len(Groups(leaves_builders))
    /\ result' = "Ok"
    /\ pc' = "done"
    /\ UNCHANGED <<kind, arms, matched_ty, var_requests,
                   otherwise_variant, variant_map, diagnostics,
                   item_results, leaves_builders, block_ids, arm_var_ids, n_blocks,
                   n_vars, current_path, current_var_ids, frames, felt, match_info,
                   matches, groups_done, tail_calls, sealed_blocks, failed_by>>

\* ---------------------------------------------------------- specifications
NextEnum ==
    \/ GetUnderscorePatternPath
    \/ GetVariantToArmMap
    \/ EmitVariant
    \/ CollectVariants
    \/ GroupArm
    \/ MergeAndEndWithMatch

SpecEnum == InitEnum /\ [][NextEnum]_vars

NextTuple ==
    \/ GetUnderscorePatternPath
    \/ GetVariantToArmMap
    \/ TreeVisit
    \/ TreeLeaf
    \/ TreeReturn
    \/ GroupArm
    \/ MergeAndEndWithMatch

SpecTuple == InitTuple /\ [][NextTuple]_vars

NextFelt ==
    \/ ValidateFelt
    \/ ChooseStrategy
    \/ CascadeStep
    \/ CascadeReturn
    \/ LowerJumpTable
    \/ GroupArm
    \/ MergeAndEndWithMatch
    \/ LowerAgain

SpecFelt == InitFelt /\ [][NextFelt]_vars

NextGroup ==
    \/ GroupArm
    \/ GroupMatchArmsReturn

SpecGroup == InitLeaves /\ [][NextGroup]_vars

\* Every match kind lower_expr_match dispatches on.
Init == InitEnum \/ InitTuple \/ InitFelt

Next ==
    \/ GetUnderscorePatternPath
    \/ GetVariantToArmMap
    \/ EmitVariant
    \/ CollectVariants
    \/ TreeVisit
    \/ TreeLeaf
    \/ TreeReturn
    \/ ValidateFelt
    \/ ChooseStrategy
    \/ CascadeStep
    \/ CascadeReturn
    \/ LowerJumpTable
    \/ GroupArm
    \/ MergeAndEndWithMatch

Spec == Init /\ [][Next]_vars

\* ------------------------------------------------------------------ claims
\* The external services whose failure fails a lowering.
Services ==
    {"lower_tail_expr", "merge_and_end_with_match", "lowered_expr_to_block_scope_end",
     "lower_expr_literal"}

\* The cases a match must cover: the variants of a flat enum, the variant
\* combinations of a tuple.
Cases ==
    IF kind = "tuple" THEN [1 .. TupleArity -> concrete_variants]
    ELSE [1 .. 1 -> concrete_variants]

MappingSucceeded ==
    /\ pc \notin {"start", "map"}
    /\ failed_by # "UnsupportedMatchArmNotAVariant"

EmissionOver == pc \in {"group", "done"}

LeafIndices == 1 .. Len(leaves_builders)
DiagIndices == 1 .. Len(diagnostics)

\* C1: a flat enum match that is lowered ends with exactly one Match terminator
\* (the confluences of the arms aside) with one arm per concrete variant, in
\* definition order, each with its own block and exactly one payload variable;
\* the leaf of a variant belongs to the arm the variant map names, else to the
\* wildcard's arm; and a match whose variants are all covered is lowered unless
\* an external service fails.
C1_FlatEnumOneMatchPerVariant ==
    /\ (kind = "enum" /\ pc = "done" /\ result = "Ok") =>
           LET real == {i \in 1 .. Len(matches) : ~matches[i].join}
           IN  /\ Cardinality(real) = 1
               /\ \A i \in real :
                      LET as == matches[i].info.arms
                      IN  /\ matches[i].info.shape = "Enum"
                          /\ Len(as) = NumVariants
                          /\ \A v \in 1 .. NumVariants :
                                 /\ as[v].arm_selector = VariantId(v)
                                 /\ Len(as[v].var_ids) = 1
                                 /\ \A w \in 1 .. NumVariants :
                                        w # v => /\ as[w].block_id # as[v].block_id
                                                 /\ as[w].var_ids # as[v].var_ids
                                 /\ LET ls == {j \in LeafIndices :
                                                  leaves_builders[j].builder
                                                      = as[v].block_id}
                                    IN  /\ Cardinality(ls) = 1
                                        /\ \A j \in ls :
                                               /\ leaves_builders[j].path = <<v>>
                                               /\ leaves_builders[j].arm_index =
                                                      IF <<v>> \in DOMAIN variant_map
                                                      THEN variant_map[<<v>>].arm_index
                                                      ELSE otherwise_variant.arm_index
    /\ (/\ kind = "enum"
        /\ pc = "done"
        /\ MappingSucceeded
        /\ failed_by \notin Services
        /\ \A c \in Cases : c \in DOMAIN variant_map \/ otherwise_variant # None)
           => result = "Ok"

\* C1 witness: a lowered flat enum match with a leaf from the variant map and a
\* leaf routed to the wildcard.
C1_Witness ==
    /\ kind = "enum"
    /\ pc = "done"
    /\ result = "Ok"
    /\ otherwise_variant # None
    /\ \E j \in LeafIndices : leaves_builders[j].path \in DOMAIN variant_map
    /\ \E j \in LeafIndices : leaves_builders[j].path \notin DOMAIN variant_map

\* The leaves registered for one case.
LeavesOfCase(c) == {j \in LeafIndices : leaves_builders[j].path = c}

\* The MissingMatchArm diagnostics whose descriptor names one case.
MissingDiagsOf(c) ==
    {d \in DiagIndices : /\ diagnostics[d].kind = "MissingMatchArm"
                         /\ diagnostics[d].desc = c}

\* C2: in a tuple match with a wildcard arm, every variant combination that is
\* not a key of the decision map gets exactly one leaf, the leaf belongs to the
\* wildcard's arm, and the match does not fail because of that path.
C2_TupleWildcardRouting ==
    (/\ kind = "tuple"
     /\ pc = "done"
     /\ MappingSucceeded
     /\ otherwise_variant # None
     /\ failed_by \notin Services) =>
        /\ \A c \in Cases :
               c \notin DOMAIN variant_map =>
                   /\ Cardinality(LeavesOfCase(c)) = 1
                   /\ \A j \in LeavesOfCase(c) :
                          leaves_builders[j].arm_index = otherwise_variant.arm_index
        /\ ((\E c \in Cases : c \notin DOMAIN variant_map) =>
                failed_by # "UnsupportedMatchArmNotATuple")

\* C2 witness: a tuple match with a wildcard arm, mapped, whose emission has
\* looked up a combination that is not a key of the decision map.
C2_Witness ==
    /\ kind = "tuple"
    /\ pc = "done"
    /\ MappingSucceeded
    /\ otherwise_variant # None
    /\ variant_map # <<>>
    /\ \E c \in Cases : c \notin DOMAIN variant_map

\* C3: when a match has no wildcard arm, exactly one MissingMatchArm diagnostic
\* is emitted for each uncovered case (a variant of a flat or extern enum, a
\* variant combination of a tuple), none for a covered case, the variants and
\* paths after a missing one are still examined (the covered ones get their
\* leaf), and the lowering fails with MissingMatchArm when a case is uncovered.
C3_MissingMatchArmPerUncoveredCase ==
    (/\ kind \in {"enum", "extern", "tuple"}
     /\ otherwise_variant = None
     /\ MappingSucceeded
     /\ EmissionOver
     /\ result # "Panic") =>
        /\ \A c \in Cases :
               /\ Cardinality(MissingDiagsOf(c)) =
                      (IF c \in DOMAIN variant_map THEN 0 ELSE 1)
               /\ Cardinality(LeavesOfCase(c)) =
                      (IF c \in DOMAIN variant_map THEN 1 ELSE 0)
        /\ \A d \in DiagIndices :
               diagnostics[d].kind = "MissingMatchArm" => diagnostics[d].desc \in Cases
        /\ ((\E c \in Cases : c \notin DOMAIN variant_map) =>
                /\ result = "Failed"
                /\ failed_by = "MissingMatchArm")

\* C3 witness: a failed match without wildcard in which a covered case comes
\* after an uncovered one, and two cases are uncovered.
C3_Witness ==
    /\ kind \in {"enum", "extern", "tuple"}
    /\ otherwise_variant = None
    /\ MappingSucceeded
    /\ pc = "done"
    /\ result = "Failed"
    /\ Len(leaves_builders) > 0
    /\ \E d \in DiagIndices :
           /\ diagnostics[d].kind = "MissingMatchArm"
           /\ \E j \in LeafIndices :
                  /\ Len(leaves_builders[j].path) = Len(diagnostics[d].desc)
                  /\ \E i \in 1 .. Len(diagnostics[d].desc) :
                         /\ leaves_builders[j].path[i] > diagnostics[d].desc[i]
                         /\ \A k \in 1 .. (i - 1) :
                                leaves_builders[j].path[k] = diagnostics[d].desc[k]
    /\ Cardinality({d \in DiagIndices : diagnostics[d].kind = "MissingMatchArm"}) >= 2

\* A pattern covers a case: the wildcard covers every case, a variant pattern of
\* the matched enum covers its variant, a tuple pattern covers the combinations
\* each of whose fields is covered by the pattern's field.
CoversVariant(pattern, enum, variant) ==
    \/ pattern.kind = "Otherwise"
    \/ /\ pattern.kind = "EnumVariant"
       /\ pattern.enum = enum
       /\ pattern.variant = variant

Covers(pattern, c) ==
    \/ pattern.kind = "Otherwise"
    \/ /\ kind # "tuple"
       /\ CoversVariant(pattern, 1, c[1])
    \/ /\ kind = "tuple"
       /\ pattern.kind = "Tuple"
       /\ Len(pattern.fields) = Len(c)
       /\ \A i \in 1 .. Len(c) : CoversVariant(pattern.fields[i], i, c[i])

CoveringArms(c) ==
    {a \in 1 .. Len(arms) : \E p \in 1 .. Len(arms[a]) : Covers(arms[a][p], c)}

CoveringPatterns(a, c) == {p \in 1 .. Len(arms[a]) : Covers(arms[a][p], c)}

\* C4: the leaf of a variant or variant combination belongs to the covering arm
\* with the smallest arm index, and within that arm to the covering pattern
\* with the smallest pattern index.
C4_ArmOrderStability ==
    (/\ kind \in {"enum", "extern", "tuple"}
     /\ MappingSucceeded) =>
        \A j \in LeafIndices :
            LET c == leaves_builders[j].path
                a == leaves_builders[j].arm_index
            IN  /\ a = Min(CoveringArms(c))
                /\ leaves_builders[j].pattern_index = Min(CoveringPatterns(a, c))

\* C4 witness: a leaf registered for a case that a pattern of the wildcard's arm
\* placed before the wildcard covers.
C4_Witness ==
    /\ kind \in {"enum", "extern", "tuple"}
    /\ MappingSucceeded
    /\ otherwise_variant # None
    /\ \E j \in LeafIndices :
           /\ leaves_builders[j].arm_index = otherwise_variant.arm_index
           /\ \E p \in 1 .. (otherwise_variant.pattern_index - 1) :
                  Covers(arms[otherwise_variant.arm_index][p], leaves_builders[j].path)

TailCallsOf(a) == {i \in 1 .. Len(tail_calls) : tail_calls[i] = a}

LeavesOfArm(a) == {j \in LeafIndices : leaves_builders[j].arm_index = a}

ArmsOfLeaves == {leaves_builders[j].arm_index : j \in LeafIndices}

\* C5: for any list of leaves given to group_match_arms, lower_tail_expr is
\* never invoked more than once for the same arm, and never for an arm that owns
\* no leaf; when every inner pattern was lowered and the builder services
\* succeed, it is invoked exactly once for each arm that owns a leaf.
C5_OneBodyPerArm ==
    kind = "leaves" =>
        /\ \A a \in 1 .. MaxLeafArm :
               /\ Cardinality(TailCallsOf(a)) <= 1
               /\ (a \notin ArmsOfLeaves => TailCallsOf(a) = {})
        /\ \A i \in 1 .. Len(tail_calls) : tail_calls[i] \in 1 .. MaxLeafArm
        /\ (/\ pc = "done"
            /\ result = "Ok"
            /\ \A j \in LeafIndices : leaves_builders[j].lowerin_result = "Ok")
               => \A a \in ArmsOfLeaves : Cardinality(TailCallsOf(a)) = 1

\* C5 witness: group_match_arms has returned for a list in which an arm owns two
\* leaves separated by a leaf of another arm, and an arm owns no leaf.
C5_Witness ==
    /\ kind = "leaves"
    /\ pc = "done"
    /\ result = "Ok"
    /\ \A j \in LeafIndices : leaves_builders[j].lowerin_result = "Ok"
    /\ \E i, j, k \in LeafIndices :
           /\ i < j
           /\ j < k
           /\ leaves_builders[i].arm_index = leaves_builders[k].arm_index
           /\ leaves_builders[i].arm_index # leaves_builders[j].arm_index
    /\ \E a \in 1 .. MaxLeafArm : a \notin ArmsOfLeaves

\* A leaf was sealed as an error-carrying block: as the block of its arm, or as
\* a child of its arm's confluence.
ErrorSealed(j) ==
    LET is(b) == /\ b.kind = "error"
                 /\ b.block = leaves_builders[j].builder
                 /\ b.arm_index = leaves_builders[j].arm_index
    IN  \/ \E i \in 1 .. Len(sealed_blocks) : is(sealed_blocks[i])
        \/ \E m \in 1 .. Len(matches) :
               /\ matches[m].join
               /\ \E i \in 1 .. Len(matches[m].sealed) : is(matches[m].sealed[i])

FailedLeaves == {j \in LeafIndices : leaves_builders[j].lowerin_result # "Ok"}

Positions ==
    UNION {{PatternPath(a, p) : p \in 1 .. Len(arms[a])} : a \in 1 .. Len(arms)}

Before(x, y) ==
    \/ x.arm_index < y.arm_index
    \/ /\ x.arm_index = y.arm_index
       /\ x.pattern_index < y.pattern_index

OtherwisePositions ==
    {x \in Positions : arms[x.arm_index][x.pattern_index].kind = "Otherwise"}

DiscoveryDiagsAt(x) ==
    {d \in DiagIndices : /\ diagnostics[d].by = "get_underscore_pattern_path"
                         /\ diagnostics[d].arm = x.arm_index
                         /\ diagnostics[d].pat = x.pattern_index}

\* C7: in enum and tuple matches the wildcard is the first otherwise pattern in
\* source order (none when there is no otherwise pattern); wildcard discovery
\* reports UnreachableMatchArm exactly once for every pattern strictly after
\* it, and for no pattern at or before it; and no leaf is ever registered with
\* an arm index greater than the wildcard's.
C7_WildcardDiscovery ==
    (kind \in {"enum", "extern", "tuple"} /\ pc # "start") =>
        /\ IF OtherwisePositions = {}
           THEN otherwise_variant = None
           ELSE /\ otherwise_variant \in OtherwisePositions
                /\ \A x \in OtherwisePositions :
                       x = otherwise_variant \/ Before(otherwise_variant, x)
        /\ \A x \in Positions :
               Cardinality(DiscoveryDiagsAt(x)) =
                   (IF otherwise_variant # None /\ Before(otherwise_variant, x)
                    THEN 1 ELSE 0)
        /\ \A d \in DiagIndices :
               diagnostics[d].by = "get_underscore_pattern_path" =>
                   /\ diagnostics[d].kind = "UnreachableMatchArm"
                   /\ PatternPath(diagnostics[d].arm, diagnostics[d].pat) \in Positions
        /\ (otherwise_variant # None =>
                \A j \in LeafIndices :
                    leaves_builders[j].arm_index <= otherwise_variant.arm_index)

\* C7 witness: a lowered match whose wildcard is followed by a pattern of its
\* own arm and by a later arm.
C7_Witness ==
    /\ kind \in {"enum", "extern", "tuple"}
    /\ pc = "done"
    /\ result = "Ok"
    /\ otherwise_variant # None
    /\ otherwise_variant.arm_index < Len(arms)
    /\ otherwise_variant.pattern_index < Len(arms[otherwise_variant.arm_index])
    /\ Len(leaves_builders) > 0

\* C8: UnreachableMatchArm is a warning in every kind of match: a lowering whose
\* only diagnostics are UnreachableMatchArm, and in which no external service
\* fails, returns a success.
C8_UnreachableIsNonFatal ==
    (/\ pc = "done"
     /\ kind \in {"enum", "extern", "tuple", "felt"}
     /\ Len(diagnostics) > 0
     /\ \A d \in DiagIndices : diagnostics[d].kind = "UnreachableMatchArm"
     /\ failed_by \notin Services
     /\ result # "Panic") =>
        result = "Ok"

\* C8 witness: an integer match whose lowering has ended with UnreachableMatchArm
\* as its only diagnostic, reported on a duplicated literal.
C8_Witness ==
    /\ pc = "done"
    /\ kind = "felt"
    /\ Len(diagnostics) = 1
    /\ diagnostics[1].kind = "UnreachableMatchArm"
    /\ arms[diagnostics[1].arm][diagnostics[1].pat].kind = "Literal"
    /\ \E x \in Positions :
           /\ Before(x, PatternPath(diagnostics[1].arm, diagnostics[1].pat))
           /\ arms[x.arm_index][x.pattern_index] =
                  arms[diagnostics[1].arm][diagnostics[1].pat]

\* Two lowerings of one integer match under two values of the threshold: the
\* lower threshold T1, the higher T2, and the strategy chosen under each.
TwoLowerings ==
    /\ kind = "felt"
    /\ felt.strategy # "none"
    /\ felt.prev_strategy # "none"
    /\ felt.threshold # felt.prev_threshold

T1 == Min({felt.threshold, felt.prev_threshold})
T2 == Max({felt.threshold, felt.prev_threshold})
StrategyAtT1 ==
    IF felt.threshold < felt.prev_threshold THEN felt.strategy ELSE felt.prev_strategy
StrategyAtT2 ==
    IF felt.threshold < felt.prev_threshold THEN felt.prev_strategy ELSE felt.strategy

\* C9 as stated: raising the threshold from T1 to T2 never turns a jump table
\* into a cascade, and lowering it from T2 to T1 turns a cascade into a jump
\* table only if T1 < max <= T2.
C9_RaisingKeepsJumpTable ==
    TwoLowerings =>
        /\ ~(StrategyAtT1 = "jump_table" /\ StrategyAtT2 = "cascade")
        /\ ((StrategyAtT2 = "cascade" /\ StrategyAtT1 = "jump_table") =>
                (T1 < felt.max /\ felt.max <= T2))

\* C9 amended: raising the threshold from T1 to T2 never turns a cascade into a
\* jump table; it turns a jump table into a cascade exactly when
\* T1 < max <= T2, which is also the only case in which lowering the threshold
\* from T2 to T1 turns a cascade into a jump table.
C9_RaisingKeepsCascade ==
    TwoLowerings =>
        /\ ~(StrategyAtT1 = "cascade" /\ StrategyAtT2 = "jump_table")
        /\ ((StrategyAtT1 = "jump_table" /\ StrategyAtT2 = "cascade") <=>
                (T1 < felt.max /\ felt.max <= T2))

\* C9 witness: one match lowered under two thresholds with the maximum literal
\* between them.
C9_Witness ==
    /\ TwoLowerings
    /\ T1 < felt.max
    /\ felt.max <= T2
    /\ pc = "done"
    /\ result = "Ok"

ScenarioArms ==
    <<<<PLiteral(0)>>, <<PLiteral(1)>>, <<PLiteral(2)>>, <<POtherwise>>>>

\* The jump table of the scenario: one Match on the downcast of the input to
\* bounded_int[0, 2] whose Some arm leads to a value match of three arms routing
\* the indices 0, 1, 2 to the first three arms and whose None arm leads to the
\* wildcard's arm, without any felt252_is_zero match.
ScenarioJumpTable ==
    /\ felt.strategy = "jump_table"
    /\ \A m \in 1 .. Len(matches) : matches[m].info.function # "felt252_is_zero"
    /\ \E m \in 1 .. Len(matches) :
           LET info == matches[m].info
           IN  /\ info.function = "downcast"
               /\ info.n = 2
               /\ Len(info.arms) = 2
               /\ info.arms[1].arm_selector = CoreVariant("option_some")
               /\ info.arms[2].arm_selector = CoreVariant("option_none")
               /\ \E j \in LeafIndices :
                      /\ leaves_builders[j].builder = info.arms[2].block_id
                      /\ leaves_builders[j].arm_index = 4
               /\ \E v \in 1 .. Len(matches) :
                      /\ matches[v].block = info.arms[1].block_id
                      /\ matches[v].info.shape = "Value"
                      /\ Len(matches[v].info.arms) = 3
                      /\ \A i \in 1 .. 3 :
                             /\ matches[v].info.arms[i].arm_selector = Value(i - 1)
                             /\ \E j \in LeafIndices :
                                    /\ leaves_builders[j].builder =
                                           matches[v].info.arms[i].block_id
                                    /\ leaves_builders[j].arm_index = i

\* C10: the integer match [0 => e0, 1 => e1, 2 => e2, _ => ew] under the
\* threshold 2 is lowered as the jump table of the scenario, and not as a
\* cascade of felt252_is_zero tests.
C10_JumpTableAtThresholdTwo ==
    (/\ kind = "felt"
     /\ arms = ScenarioArms
     /\ felt.threshold = 2
     /\ pc = "done"
     /\ failed_by \notin Services) =>
        /\ result = "Ok"
        /\ ScenarioJumpTable

\* C10 witness: the scenario's match has been lowered under the threshold 2.
C10_Witness ==
    /\ kind = "felt"
    /\ arms = ScenarioArms
    /\ felt.threshold = 2
    /\ pc = "done"
    /\ result = "Ok"

\* ------------------------------------------------------ integer validation
PatternAt(x) == arms[x.arm_index][x.pattern_index]

LiteralPositions == {x \in Positions : PatternAt(x).kind = "Literal"}

Literals == {PatternAt(x).value : x \in LiteralPositions}

\* All patterns are usize literals or otherwise, no literal is written twice,
\* nothing follows the first otherwise.
WellFormedLiterals ==
    /\ kind = "felt"
    /\ \A x \in Positions :
           \/ PatternAt(x).kind = "Otherwise"
           \/ PatternAt(x).kind = "Literal" /\ PatternAt(x).value >= 0
    /\ \A x, y \in LiteralPositions : PatternAt(x).value = PatternAt(y).value => x = y
    /\ \A x \in OtherwisePositions : \A y \in Positions : ~Before(x, y)

Sequential == Literals # {} /\ Literals = 0 .. Max(Literals)

\* The pre-validation has accepted the match / has ended the lowering.
ValidationAccepted == pc = "strategy" \/ felt.strategy # "none"
ValidationRejected == pc = "done" /\ felt.strategy = "none"

ExpressionDiag(k) == Diag(k, 0, 0, 0, <<>>, "lower_expr_match_felt252")

\* C11: an integer match of usize literals and otherwise patterns, without
\* duplicate, with a wildcard and nothing after it, is accepted by the
\* pre-validation if and only if its literals are exactly 0 .. max; otherwise
\* the lowering fails with exactly one UnsupportedMatchArmNonSequential reported
\* against the match expression and no block is created.
C11_SequentialLiterals ==
    (WellFormedLiterals /\ OtherwisePositions # {} /\ pc # "start") =>
        IF Sequential
        THEN ValidationAccepted
        ELSE /\ ValidationRejected
             /\ result = "Failed"
             /\ failed_by = "UnsupportedMatchArmNonSequential"
             /\ diagnostics = <<ExpressionDiag("UnsupportedMatchArmNonSequential")>>
             /\ n_blocks = 0

\* C11 witness: the pre-validation has ended on a well-formed match with a
\* wildcard whose literals have a gap or do not start at zero.
C11_Witness ==
    /\ WellFormedLiterals
    /\ OtherwisePositions # {}
    /\ Literals # {}
    /\ ~Sequential
    /\ pc = "done"

\* C12: an integer match with an empty arm list, or whose patterns are all
\* distinct usize literals without any wildcard, fails with exactly one
\* NonExhaustiveMatchFelt252 reported against the match expression, whatever
\* its literals are, and no block is created.
C12_MissingWildcard ==
    (WellFormedLiterals /\ OtherwisePositions = {} /\ pc # "start") =>
        /\ ValidationRejected
        /\ result = "Failed"
        /\ failed_by = "NonExhaustiveMatchFelt252"
        /\ diagnostics = <<ExpressionDiag("NonExhaustiveMatchFelt252")>>
        /\ n_blocks = 0

\* C12 witness: the lowering has ended on a match without wildcard whose
\* literals are not 0 .. max.
C12_Witness ==
    /\ WellFormedLiterals
    /\ OtherwisePositions = {}
    /\ Literals # {}
    /\ ~Sequential
    /\ pc = "done"

\* The Match terminator of the match expression and the sealed blocks threaded
\* into it.
FinalMatches == {m \in 1 .. Len(matches) : ~matches[m].join /\ matches[m].block = 0}

IsMatchKind == kind \in {"enum", "extern", "tuple", "felt"}

\* C13 as stated: for every successfully lowered match the sealed blocks
\* returned by the joiner are exactly one per source arm, in arm order: as many
\* as the match has arms.
C13_OneSealedBlockPerArm ==
    (IsMatchKind /\ pc = "done" /\ result = "Ok") =>
        /\ Len(sealed_blocks) = Len(arms)
        /\ \A i \in 1 .. Len(sealed_blocks) : sealed_blocks[i].arm_index = i
        /\ \A m \in FinalMatches : matches[m].sealed = sealed_blocks

\* C13 amended: the sealed blocks are exactly one per source arm that owns at
\* least one leaf, in ascending arm order; an arm without leaf (every pattern
\* of it shadowed or after the wildcard) has no block, so the list is as long
\* as the match has arms only when every arm owns a leaf.
C13_OneSealedBlockPerArmWithLeaf ==
    (IsMatchKind /\ pc = "done" /\ result = "Ok") =>
        /\ Len(sealed_blocks) = Cardinality(ArmsOfLeaves)
        /\ \A i \in 1 .. Len(sealed_blocks) : sealed_blocks[i].arm_index \in ArmsOfLeaves
        /\ \A i, j \in 1 .. Len(sealed_blocks) :
               i < j => sealed_blocks[i].arm_index < sealed_blocks[j].arm_index
        /\ FinalMatches # {}
        /\ \A m \in FinalMatches : matches[m].sealed = sealed_blocks

\* C13 witness: a lowered match one of whose arms owns no leaf, and whose
\* leaves were not registered in arm order.
C13_Witness ==
    /\ IsMatchKind
    /\ pc = "done"
    /\ result = "Ok"
    /\ Cardinality(ArmsOfLeaves) < Len(arms)
    /\ \E i, j \in LeafIndices :
           i < j /\ leaves_builders[i].arm_index > leaves_builders[j].arm_index

\* The structural failures: Unsupported* and NonExhaustiveMatchFelt252.
StructuralKinds ==
    {"UnsupportedMatchArmNotAVariant", "UnsupportedMatchArmNotATuple",
     "UnsupportedMatchArmNotALiteral", "UnsupportedMatchArmNonSequential",
     "NonExhaustiveMatchFelt252"}

StructuralDiags == {d \in DiagIndices : diagnostics[d].kind \in StructuralKinds}

\* C14: when the lowering of a match fails with a structural failure, exactly
\* one structural diagnostic has been emitted for the match, and the failure
\* was returned at once: nothing was reported after that diagnostic.
C14_OneStructuralDiagnostic ==
    (IsMatchKind /\ pc = "done" /\ result = "Failed" /\ failed_by \in StructuralKinds) =>
        /\ Cardinality(StructuralDiags) = 1
        /\ Len(diagnostics) \in StructuralDiags

\* C14 witness: a tuple match has failed with UnsupportedMatchArmNotATuple after
\* its decision tree was walked.
C14_Witness ==
    /\ kind = "tuple"
    /\ pc = "done"
    /\ result = "Failed"
    /\ failed_by = "UnsupportedMatchArmNotATuple"
    /\ variant_map # <<>>

\* The patterns of a single-enum match that are neither a wildcard nor placed
\* after the first wildcard, and are not a variant pattern of the matched enum.
NotAVariantPositions ==
    {x \in Positions :
        /\ PatternAt(x).kind # "Otherwise"
        /\ \A y \in OtherwisePositions : ~Before(y, x)
        /\ ~(PatternAt(x).kind = "EnumVariant" /\ PatternAt(x).enum = 1)}

\* C15: in a single-enum match, plain or extern, if a pattern that is neither a
\* wildcard nor placed after the first wildcard is not a variant pattern of the
\* matched enum, UnsupportedMatchArmNotAVariant is reported on such a pattern
\* and the lowering fails.
C15_NotAVariantRejected ==
    (kind \in {"enum", "extern"} /\ pc \notin {"start", "map"}
         /\ NotAVariantPositions # {}) =>
        /\ result = "Failed"
        /\ failed_by = "UnsupportedMatchArmNotAVariant"
        /\ \E d \in DiagIndices :
               /\ diagnostics[d].kind = "UnsupportedMatchArmNotAVariant"
               /\ PatternPath(diagnostics[d].arm, diagnostics[d].pat)
                      \in NotAVariantPositions

\* C15 witness: the mapping of a single-enum match has run on a match whose
\* wildcard's arm starts with a pattern that is not a variant of the enum.
C15_Witness ==
    /\ kind \in {"enum", "extern"}
    /\ pc \notin {"start", "map"}
    /\ otherwise_variant # None
    /\ otherwise_variant.pattern_index > 1
    /\ PatternPath(otherwise_variant.arm_index, 1) \in NotAVariantPositions

\* The diagnostics attached to a pattern of an arm, and the pattern of each.
PatternDiags == {d \in DiagIndices : diagnostics[d].arm # 0}
DiagPosition(d) == PatternPath(diagnostics[d].arm, diagnostics[d].pat)

\* C16: the diagnostics of one match lowering are reported in source-traversal
\* order: of two diagnostics attached to arm patterns, the one reported first
\* is not on a pattern that comes after the other's pattern.
C16_DiagnosticsInSourceOrder ==
    IsMatchKind =>
        \A d1, d2 \in PatternDiags :
            d1 < d2 => ~Before(DiagPosition(d2), DiagPosition(d1))

\* C16 witness: a lowering has ended with diagnostics on a pattern of the
\* wildcard's arm and on a pattern of a later arm.
C16_Witness ==
    /\ IsMatchKind
    /\ pc = "done"
    /\ otherwise_variant # None
    /\ \E d1, d2 \in PatternDiags :
           /\ diagnostics[d1].arm = otherwise_variant.arm_index
           /\ diagnostics[d2].arm > otherwise_variant.arm_index

\* The snapshot layers of the matched expression over axis `axis`: those of the
\* matched type, plus those of the axis's type in a tuple.
MatchedSnapshots(axis) ==
    IF kind = "tuple" THEN matched_ty.types[axis].snapshots + matched_ty.snapshots
    ELSE matched_ty.snapshots

\* C17: every payload variable of a tuple match is requested with the payload
\* type of its variant under exactly (snapshots of its axis + snapshots of the
\* tuple) more layers, every payload variable of a flat enum match under
\* exactly the layers peeled off the matched type; every variable these
\* matches allocate is such a payload variable.
C17_SnapshotTransparency ==
    kind \in {"enum", "tuple"} =>
        /\ DOMAIN var_requests = 1 .. n_vars
        /\ \A id \in DOMAIN var_requests :
               LET ty == var_requests[id]
               IN  /\ Len(ty.base) = 3
                   /\ ty.base[1] = "payload"
                   /\ ty.base[2] \in (IF kind = "tuple" THEN 1 .. TupleArity ELSE {1})
                   /\ ty.base[3] \in concrete_variants
                   /\ ty.snapshots = VariantTy(ty.base[2], ty.base[3]).snapshots
                                         + MatchedSnapshots(ty.base[2])

\* C17 witness: a tuple match under a snapshot, one of whose axes is a snapshot
\* and another is not, has been lowered.
C17_Witness ==
    /\ kind = "tuple"
    /\ pc = "done"
    /\ result = "Ok"
    /\ matched_ty.snapshots > 0
    /\ \E i, j \in 1 .. TupleArity :
           /\ matched_ty.types[i].snapshots = 0
           /\ matched_ty.types[j].snapshots > 0
    /\ \A i \in 1 .. TupleArity :
           \E id \in DOMAIN var_requests : var_requests[id].base[2] = i


\* ------------------------------------------------------------ the cascade
\* The felt252_is_zero tests of the lowered match, and the chain they form from
\* a block on: the next test is the one that ends the nonzero block.
IsZeroTests ==
    {m \in 1 .. Len(matches) : /\ ~matches[m].join
                               /\ matches[m].info.function = "felt252_is_zero"}

TestsAt(block) == {m \in IsZeroTests : matches[m].block = block}

RECURSIVE ChainFrom(_)
ChainFrom(block) ==
    IF TestsAt(block) = {}
    THEN <<>>
    ELSE LET m == CHOOSE t \in TestsAt(block) : TRUE
         IN  <<m>> \o ChainFrom(matches[m].info.arms[2].block_id)

Chain == ChainFrom(0)

\* The rank of a literal pattern among the literal patterns, in encounter order.
Rank(x) == Cardinality({y \in LiteralPositions : Before(y, x)}) + 1

LeavesAt(block) == {j \in LeafIndices : leaves_builders[j].builder = block}

CascadeEnded ==
    /\ kind = "felt"
    /\ felt.strategy = "cascade"
    /\ pc = "done"
    /\ failed_by \notin Services

\* C18: a validated integer match lowered as a cascade succeeds and has one
\* two-arm felt252_is_zero Match per literal pattern, chained in encounter
\* order from the block of the match on: the zero branch of the test of a
\* literal is a leaf of that literal's arm, and the nonzero branch of the last
\* test is the leaf of the arm of the wildcard.
C18_CascadeOneTestPerLiteral ==
    CascadeEnded =>
        /\ result = "Ok"
        /\ Cardinality(IsZeroTests) = Cardinality(LiteralPositions)
        /\ Len(Chain) = Cardinality(LiteralPositions)
        /\ \A x \in LiteralPositions :
               LET info == matches[Chain[Rank(x)]].info
               IN  /\ Len(info.arms) = 2
                   /\ \E j \in LeavesAt(info.arms[1].block_id) :
                          /\ leaves_builders[j].arm_index = x.arm_index
                          /\ leaves_builders[j].path = <<PatternAt(x).value>>
        /\ LET last == matches[Chain[Len(Chain)]].info
           IN  \E j \in LeavesAt(last.arms[2].block_id) :
                   \E w \in OtherwisePositions :
                       /\ leaves_builders[j].arm_index = w.arm_index
                       /\ leaves_builders[j].path = <<OtherValue>>

\* The same, for the matches whose wildcard is alone in its arm.
C18_HoldsWhenWildcardAlone ==
    (\E w \in OtherwisePositions : Len(arms[w.arm_index]) = 1) =>
        C18_CascadeOneTestPerLiteral

\* A single arm of a literal and the wildcard, refused by the cascade.
C18_SingleArmRefused ==
    ~(/\ CascadeEnded
      /\ Len(arms) = 1
      /\ result = "Failed"
      /\ failed_by = "UnsupportedMatchArmNotALiteral")

\* A literal written in the arm of the wildcard has no test of its own.
C18_LiteralBesideWildcardUntested ==
    ~(/\ CascadeEnded
      /\ result = "Ok"
      /\ Cardinality(IsZeroTests) < Cardinality(LiteralPositions))

C18_Witness ==
    /\ CascadeEnded
    /\ result = "Ok"
    /\ Cardinality(LiteralPositions) >= 2
    /\ Len(Chain) = Cardinality(LiteralPositions)
    /\ \E w \in OtherwisePositions : Len(arms[w.arm_index]) = 1


\* ---------------------------------------------------------- the jump table
JumpTableEnded ==
    /\ kind = "felt"
    /\ felt.strategy # "none"
    /\ felt.max > felt.threshold
    /\ pc = "done"
    /\ failed_by \notin Services

\* The Match terminators that end a block.
MatchesAt(block) == {m \in 1 .. Len(matches) : ~matches[m].join /\ matches[m].block = block}

\* The arm in which a literal is written.
ArmsOfLiteral(value) ==
    {x.arm_index : x \in {y \in LiteralPositions : PatternAt(y).value = value}}

\* C19: a validated integer match whose maximum literal exceeds the threshold
\* is lowered to a two-arm Match on the downcast to bounded_int[0, max]; its
\* None arm is a leaf of the arm of the wildcard, its Some arm is a block ended
\* by a value Match of max + 1 arms with the selectors 0 .. max in ascending
\* order, and the leaf of selector i belongs to the arm where literal i is
\* written.
C19_JumpTableShape ==
    JumpTableEnded =>
        /\ result = "Ok"
        /\ Cardinality(MatchesAt(0)) = 1
        /\ \A m \in MatchesAt(0) :
               LET outer == matches[m].info
               IN  /\ outer.shape = "Extern"
                   /\ outer.function = "downcast"
                   /\ outer.n = Max(Literals)
                   /\ Len(outer.arms) = 2
                   /\ outer.arms[1].arm_selector = CoreVariant("option_some")
                   /\ outer.arms[2].arm_selector = CoreVariant("option_none")
                   /\ \E j \in LeavesAt(outer.arms[2].block_id) :
                          \E w \in OtherwisePositions :
                              leaves_builders[j].arm_index = w.arm_index
                   /\ Cardinality(MatchesAt(outer.arms[1].block_id)) = 1
                   /\ \A t \in MatchesAt(outer.arms[1].block_id) :
                          LET inner == matches[t].info
                          IN  /\ inner.shape = "Value"
                              /\ inner.n = Max(Literals) + 1
                              /\ Len(inner.arms) = Max(Literals) + 1
                              /\ \A i \in 0 .. Max(Literals) :
                                     /\ inner.arms[i + 1].arm_selector = Value(i)
                                     /\ \E j \in LeavesAt(inner.arms[i + 1].block_id) :
                                            ArmsOfLiteral(i) =
                                                {leaves_builders[j].arm_index}

C19_Witness ==
    /\ JumpTableEnded
    /\ result = "Ok"
    /\ Len(arms) >= 2
    /\ Max(Literals) >= 1
    /\ \E x, y \in LiteralPositions :
           /\ Before(x, y)
           /\ PatternAt(x).value > PatternAt(y).value


\* ------------------------------------------------------ the tuple decision tree
\* The tree below a block that stands for a path: the block is ended by one
\* enum Match with an arm per variant of the next axis, in definition order,
\* whose variable is a payload of that axis; below the last axis the block of
\* an arm is the block of the one leaf of the extended path and no Match ends
\* it, above it the block of an arm is the tree of the extended path.
RECURSIVE TreeFrom(_, _)
TreeFrom(block, path) ==
    /\ Cardinality(MatchesAt(block)) = 1
    /\ \A m \in MatchesAt(block) :
           LET info == matches[m].info
               axis == Len(path) + 1
           IN  /\ info.shape = "Enum"
               /\ Len(info.arms) = Cardinality(concrete_variants)
               /\ \A v \in concrete_variants :
                      LET arm == info.arms[v]
                          below == Append(path, v)
                      IN  /\ arm.arm_selector = VariantId(v)
                          /\ Len(arm.var_ids) = 1
                          /\ var_requests[arm.var_ids[1]].base = VariantTy(axis, v).base
                          /\ IF axis = TupleArity
                             THEN /\ MatchesAt(arm.block_id) = {}
                                  /\ \A j \in LeafIndices :
                                         leaves_builders[j].builder = arm.block_id
                                             <=> leaves_builders[j].path = below
                             ELSE TreeFrom(arm.block_id, below)

\* The lexicographic order of the paths, by the definition order of the
\* variants of each axis.
PathBefore(x, y) ==
    \E d \in 1 .. TupleArity :
        /\ x[d] < y[d]
        /\ \A e \in 1 .. (d - 1) : x[e] = y[e]

TupleLowered == kind = "tuple" /\ pc = "done" /\ result = "Ok"

\* C20: the decision tree of a successfully lowered N-tuple match has exactly
\* N nested levels of Match terminators, level d on axis d with one arm per
\* variant in definition order; exactly one leaf is registered per combination
\* of variants, and the leaves are registered in the lexicographic order of
\* their paths.
C20_FullDecisionTree ==
    TupleLowered =>
        /\ TreeFrom(0, <<>>)
        /\ Cardinality({m \in 1 .. Len(matches) : ~matches[m].join}) =
               Cardinality(UNION {[1 .. d -> concrete_variants] :
                                     d \in 0 .. (TupleArity - 1)})
        /\ Len(leaves_builders) = Cardinality(Cases)
        /\ \A c \in Cases :
               Cardinality({j \in LeafIndices : leaves_builders[j].path = c}) = 1
        /\ \A i, j \in LeafIndices :
               i < j => PathBefore(leaves_builders[i].path, leaves_builders[j].path)

C20_Witness ==
    /\ TupleLowered
    /\ Len(arms) >= 2
    /\ \E i, j \in LeafIndices :
           /\ i < j
           /\ leaves_builders[i].arm_index > leaves_builders[j].arm_index


\* ------------------------------------------------------------- the mappers
\* The patterns a mapper has processed: those of the arms it is handed, up to
\* the pattern it fails on, if any.
MapperNames ==
    {"get_variant_to_arm_map", "get_variants_to_arm_map_tuple",
     "insert_tuple_path_patterns"}

MapperFailures ==
    {DiagPosition(d) : d \in {e \in DiagIndices :
                                 /\ diagnostics[e].kind = "UnsupportedMatchArmNotAVariant"
                                 /\ diagnostics[e].by \in MapperNames}}

Processed ==
    {x \in Positions :
        /\ otherwise_variant # None => x.arm_index < otherwise_variant.arm_index
        /\ \A f \in MapperFailures : Before(x, f)}

\* The keys a pattern expands to: its variant, or every combination of
\* variants its fields allow, the wildcard fields ranging over their axis.
KeysOf(x) == {c \in Cases : Covers(PatternAt(x), c)}

KeysBefore(x) == UNION {KeysOf(y) : y \in {z \in Processed : Before(z, x)}}

MapperUnreachableAt(x) ==
    {d \in DiagIndices : /\ diagnostics[d].kind = "UnreachableMatchArm"
                         /\ diagnostics[d].by \in MapperNames
                         /\ DiagPosition(d) = x}

MappingOver == kind \in {"enum", "extern", "tuple"} /\ pc \notin {"start", "map"}

\* C21: once the mapper has run, every key of the map is mapped to the first
\* processed pattern that expands to it (a later pattern does not overwrite
\* it), the keys are those of the processed patterns, and a processed pattern
\* has an UnreachableMatchArm diagnostic of the mapper, exactly one, if and
\* only if every key it expands to is a key of an earlier processed pattern.
C21_FirstInsertionKept ==
    MappingOver =>
        /\ \A x \in Processed :
               Cardinality(MapperUnreachableAt(x)) =
                   IF KeysOf(x) \subseteq KeysBefore(x) THEN 1 ELSE 0
        /\ \A x \in Positions \ Processed : MapperUnreachableAt(x) = {}
        /\ MappingSucceeded =>
               /\ DOMAIN variant_map = UNION {KeysOf(x) : x \in Processed}
               /\ \A key \in DOMAIN variant_map :
                      LET x == variant_map[key]
                      IN  /\ x \in Processed
                          /\ key \in KeysOf(x)
                          /\ key \notin KeysBefore(x)

\* C21 witness: a tuple pattern that overlaps an earlier pattern and still
\* adds a key of its own has been mapped, and a pattern that adds none too.
C21_Witness ==
    /\ kind = "tuple"
    /\ MappingOver
    /\ MappingSucceeded
    /\ \E x \in Processed :
           /\ KeysOf(x) \cap KeysBefore(x) # {}
           /\ ~(KeysOf(x) \subseteq KeysBefore(x))
           /\ \E key \in KeysOf(x) \cap KeysBefore(x) : variant_map[key] # x


\* ------------------------------------------------------- the tuple context
\* At every step of a tuple match the path and the variable list of the
\* context are equally long, no longer than the tuple, and empty when no call
\* of lower_full_match_tree is open.
ContextInStep ==
    kind = "tuple" =>
        /\ Len(current_path) = Len(current_var_ids)
        /\ Len(current_path) <= TupleArity
        /\ frames = <<>> => current_path = <<>> /\ current_var_ids = <<>>

\* lower_tuple_match_arm is called on a path as long as the tuple.
LeafOnFullPath == TreeLeaf => Len(current_path) = TupleArity

\* When a call of lower_full_match_tree returns, the path and the variable
\* list are those of its entry.
ReturnRestores ==
    TreeReturn => /\ current_path = Top.entry_path
                  /\ current_var_ids = Top.entry_var_ids
                  /\ Len(frames) = 1 => Top.entry_path = <<>> /\ Top.entry_var_ids = <<>>

\* C22: during the walk of the tuple decision tree the current path and the
\* current variable list have the same length, at most the arity of the tuple;
\* the leaf handler is called only when that length is the arity; when
\* lower_full_match_tree returns, with success or with failure, both are what
\* they were when it was called, empty for the outermost call.
C22_ContextPushPop ==
    /\ []ContextInStep
    /\ [][LeafOnFullPath]_vars
    /\ [][ReturnRestores]_vars

\* C22 witness: the outermost call has returned with a failure after a nested
\* call had failed, and the context is empty again.
C22_Witness ==
    /\ kind = "tuple"
    /\ pc = "done"
    /\ frames = <<>>
    /\ failed_by \in {"MissingMatchArm", "UnsupportedMatchArmNotATuple"}
    /\ n_vars > NumVariants
    /\ leaves_builders # <<>>
    /\ current_path = <<>>
    /\ current_var_ids = <<>>


\* ------------------------------------------------- the two integer strategies
\* One match has been lowered with the cascade and with the jump table, and no
\* external service has failed in either lowering.
BothStrategies ==
    /\ kind = "felt"
    /\ pc = "done"
    /\ felt.strategy # "none"
    /\ felt.prev_strategy # "none"
    /\ felt.strategy # felt.prev_strategy
    /\ failed_by \notin Services
    /\ felt.prev_failed_by \notin Services

\* C23: an integer match that passes the pre-validation, lowered once with the
\* cascade and once with the jump table, succeeds in both or fails in both, and
\* when it succeeds every input value, each literal 0 .. max and any other
\* value, reaches a leaf of the same arm in both.
C23_StrategiesInterchangeable ==
    BothStrategies =>
        /\ (result = "Ok") <=> (felt.prev_result = "Ok")
        /\ (result = "Ok" /\ felt.prev_result = "Ok") => Routes = felt.prev_routes

\* The routes alone: whenever both lowerings succeed they agree on every value.
C23_SameRoutesWhenBothSucceed ==
    (BothStrategies /\ result = "Ok" /\ felt.prev_result = "Ok") =>
        Routes = felt.prev_routes

\* C23 witness: both lowerings of a match of several arms have succeeded.
C23_Witness ==
    /\ BothStrategies
    /\ result = "Ok"
    /\ felt.prev_result = "Ok"
    /\ Len(arms) >= 3
    /\ felt.max >= 1


\* ------------------------------------------------- the unreachable!() sites
\* The pattern the emitters select for a variant or a variant combination.
SelectedFor(c) == LookupPath(variant_map, c, otherwise_variant)

\* The pattern kinds the emitters handle without unreachable!(): for a tuple
\* the selected pattern is the wildcard or a tuple pattern, whose fields are
\* then matched.
HandledByEmitter(pattern) ==
    IF kind = "tuple"
    THEN \/ pattern.kind = "Otherwise"
         \/ /\ pattern.kind = "Tuple"
            /\ \A i \in 1 .. Len(pattern.fields) : IsLeafPattern(pattern.fields[i])
    ELSE IsLeafPattern(pattern)

\* C24: once the variant-to-arm mapping of a flat enum, extern enum or tuple
\* match has succeeded, the pattern selected for every variant or variant
\* combination, and every field pattern of a selected tuple pattern, is an
\* enum-variant or an otherwise pattern; no unreachable!() of the emitters is
\* hit.
C24_UnreachableNeverHit ==
    kind \in {"enum", "extern", "tuple"} =>
        /\ result # "Panic"
        /\ (MappingOver /\ MappingSucceeded) =>
               \A c \in Cases :
                   SelectedFor(c) # None => HandledByEmitter(PatternAt(SelectedFor(c)))

\* C24 witness: a flat enum match whose arms hold a pattern of another kind,
\* beside the wildcard, has been mapped and lowered, every variant with its
\* leaf.
C24_Witness ==
    /\ kind = "enum"
    /\ MappingOver
    /\ MappingSucceeded
    /\ pc = "done"
    /\ result = "Ok"
    /\ variant_map # <<>>
    /\ Len(leaves_builders) = Cardinality(Cases)
    /\ \E x \in Positions : PatternAt(x).kind = "Literal"

====
